---- MODULE Spec2Model ----
(***************************************************************************)
(* Verification model of the S1000D QA backend: the vector stores          *)
(* (backend/vector_store.py), the indexer's search facade                  *)
(* (backend/document_indexer.py), the enhanced API (backend/app_new.py)    *)
(* and the search-and-rank path of the legacy API (backend/app.py).        *)
(*                                                                         *)
(* Scores and distances are integers.  In the vector-store part a          *)
(* distance is a squared L2 distance of one-dimensional embeddings; in the *)
(* search-and-rank part scores are counted in tenths (4.0 is 40).          *)
(***************************************************************************)
EXTENDS Integers, Sequences, FiniteSets, TLC

VARIABLES
    backend,      \* which VectorStore class the store object is
    batch_size,   \* config.BATCH_SIZE
    client,       \* the persisted ChromaDB collection of collection_name
    collection,   \* ChromaVectorStore.collection: generation of the handle
    index,        \* FAISSVectorStore.index
    ret,          \* outcome of the last store operation
    indexer,      \* app_new.indexer is not None
    is_indexed,   \* app_new.index_status["is_indexed"]
    resp,         \* the last HTTP response of the enhanced API
    index_store,        \* app.index_store
    document_metadata,  \* app.document_metadata
    qs,                 \* the call of app.quick_search just answered and its result
    pdf_resp,           \* status code of the /reindex-pdf response just given
    chunk_cfg,    \* config.CHUNK_SIZE and config.CHUNK_OVERLAP
    block,        \* the ContentBlock last given to the chunker
    block_chunks, \* what chunk_content_block returned for it
    cls,          \* the last call of the classifier and its results
    run           \* the last run of process_pdf

storeVars == <<backend, batch_size, client, collection, index, ret>>
apiVars == <<indexer, is_indexed, resp>>
legacyVars == <<index_store, document_metadata, qs, pdf_resp>>
pipeVars == <<chunk_cfg, block, block_chunks, cls, run>>

(***************************************************************************)
(* Bounds                                                                  *)
(***************************************************************************)
MaxDocs == 2        \* documents a collection holds at most
MaxCall == 2        \* texts (and metadatas) of one add_documents call
MaxK == 2           \* largest k of a search
MaxGen == 2         \* times the collection is created
MaxBatch == 2       \* largest configured BATCH_SIZE

(***************************************************************************)
(* Python helpers                                                          *)
(***************************************************************************)
Min(a, b) == IF a <= b THEN a ELSE b

\* s[i:j] of a list, 0-based, clipped
Slice(s, i, j) == SubSeq(s, i + 1, Min(j, Len(s)))

Range(s) == {s[i] : i \in 1..Len(s)}

SeqsUpTo(S, n) == UNION {[1..m -> S] : m \in 0..n}

(***************************************************************************)
(* Texts, embeddings and metadata of the vector-store part                 *)
(***************************************************************************)
Texts == {"t0", "t1"}
Queries == {"q0"}

\* SentenceTransformer.encode: deterministic, one number per text
Embed(t) == CASE t = "t0" -> 0 [] t = "t1" -> 1 [] t = "q0" -> 0 [] OTHER -> 2

\* squared L2 distance, the default space of both backends
Distance(a, b) == (Embed(a) - Embed(b)) * (Embed(a) - Embed(b))

Metas == { [chapter |-> "2.5.2", content_type |-> "text", importance |-> 4],
           [chapter |-> "1.1", content_type |-> "table", importance |-> 1] }

\* the metadata of a Document built without metadata ({})
EmptyMeta == [chapter |-> "", content_type |-> "", importance |-> 0]

\* ids a caller passes
CallerIds == {"doc_1", "x"}

NoIds == [given |-> FALSE, ids |-> <<>>]

\* f"doc_{n}"
DocId(n) == "doc_" \o ToString(n)

IdsOf(docs) == {docs[i].id : i \in 1..Len(docs)}

(***************************************************************************)
(* Outcome records                                                         *)
(***************************************************************************)
NoFilter == [key \in {} |-> 0]

Outcome(op, status, cause) ==
    [op |-> op, status |-> status, cause |-> cause, out |-> <<>>,
     has_count |-> FALSE, document_count |-> 0,
     k |-> 0, filter |-> NoFilter, nTexts |-> 0, nMetas |-> 0,
     failAt |-> 0, idsGiven |-> FALSE, generated |-> FALSE, ids |-> <<>>]

\* x put into the sorted sequence s behind every element that is not farther
RECURSIVE InsertByDistance(_, _)
InsertByDistance(s, x) ==
    IF s = <<>> \/ s[Len(s)].dist <= x.dist THEN Append(s, x)
    ELSE Append(InsertByDistance(SubSeq(s, 1, Len(s) - 1), x), s[Len(s)])

\* stable sort of records by their integer field dist, ascending
RECURSIVE SortByDistance(_)
SortByDistance(s) ==
    IF s = <<>> THEN <<>>
    ELSE InsertByDistance(SortByDistance(SubSeq(s, 1, Len(s) - 1)), s[Len(s)])

\* the elements of s that satisfy Keep, in order
RECURSIVE SelectDocs(_, _)
SelectDocs(s, keep) ==
    IF s = <<>> THEN <<>>
    ELSE IF keep[Head(s).id] THEN <<Head(s)>> \o SelectDocs(Tail(s), keep)
         ELSE SelectDocs(Tail(s), keep)

(***************************************************************************)
(* ChromaDB collection, as used through chromadb's API                     *)
(***************************************************************************)
\* the handle refers to the collection that exists now
Live(cl, h) == cl.exists /\ cl.gen = h

HasDuplicates(ids) == \E i, j \in 1..Len(ids) : i # j /\ ids[i] = ids[j]

\* chromadb Collection.add of one batch
CollectionAdd(cl, h, texts, metadatas, ids, dupRaises) ==
    IF ~Live(cl, h) THEN [client |-> cl, status |-> "raised", cause |-> "store"]
    ELSE IF Len(texts) = 0 \/ Len(ids) # Len(texts) \/ Len(metadatas) # Len(texts)
    THEN [client |-> cl, status |-> "raised", cause |-> "validation"]
    ELSE IF HasDuplicates(ids)
         \/ (dupRaises /\ \E i \in 1..Len(ids) : ids[i] \in IdsOf(cl.docs))
    THEN [client |-> cl, status |-> "raised", cause |-> "duplicate"]
    ELSE LET new == [i \in 1..Len(texts) |->
                        [id |-> ids[i], text |-> texts[i], meta |-> metadatas[i]]]
             keep == [id \in Range(ids) |-> id \notin IdsOf(cl.docs)]
         IN  [client |-> [cl EXCEPT !.docs = @ \o SelectDocs(new, keep)],
              status |-> "ok", cause |-> ""]

\* the batch loop of ChromaVectorStore.add_documents
RECURSIVE AddBatches(_, _, _, _, _, _, _, _)
AddBatches(cl, h, texts, metadatas, ids, bs, i, dupRaises) ==
    IF i >= Len(texts) THEN [client |-> cl, status |-> "ok", cause |-> ""]
    ELSE LET end_idx == Min(i + bs, Len(texts))
             r == CollectionAdd(cl, h, Slice(texts, i, end_idx),
                                Slice(metadatas, i, end_idx),
                                Slice(ids, i, end_idx), dupRaises)
         IN  IF r.status = "raised" THEN r
             ELSE AddBatches(r.client, h, texts, metadatas, ids, bs, i + bs, dupRaises)

\* the ids of a call: the caller's, or doc_{count + i}
CallIds(cl, texts, ids) ==
    IF ids.given THEN ids.ids
    ELSE [i \in 1..Len(texts) |-> DocId(Len(cl.docs) + (i - 1))]

\* add_documents generating the embeddings batch by batch, inside the loop
ChromaAddDocumentsEmbedPerBatch(cl, h, texts, metadatas, ids, failAt, bs, dupRaises) ==
    IF texts = <<>> THEN [client |-> cl, status |-> "ok", cause |-> ""]
    ELSE IF ~ids.given /\ ~Live(cl, h)
    THEN [client |-> cl, status |-> "raised", cause |-> "store"]
    ELSE LET upto == IF failAt \in 1..Len(texts) THEN ((failAt - 1) \div bs) * bs
                     ELSE Len(texts)
             all == CallIds(cl, texts, ids)
             r == AddBatches(cl, h, Slice(texts, 0, upto), Slice(metadatas, 0, upto),
                             Slice(all, 0, upto), bs, 0, dupRaises)
         IN  IF r.status = "ok" /\ failAt \in 1..Len(texts)
             THEN [client |-> r.client, status |-> "raised", cause |-> "embedding"]
             ELSE r

\* ChromaVectorStore.add_documents; failAt is the position of the text whose
\* embedding cannot be generated (0: none)
ChromaAddDocuments(cl, h, texts, metadatas, ids, failAt, bs, dupRaises) ==
    IF texts = <<>> THEN [client |-> cl, status |-> "ok", cause |-> ""]
    ELSE IF ~ids.given /\ ~Live(cl, h)
    THEN [client |-> cl, status |-> "raised", cause |-> "store"]
    ELSE IF failAt \in 1..Len(texts)
    THEN [client |-> cl, status |-> "raised", cause |-> "embedding"]
    ELSE AddBatches(cl, h, texts, metadatas, CallIds(cl, texts, ids), bs, 0, dupRaises)

\* a where clause of chromadb: equality, or {"$gte": n} on importance
Matches(meta, where) ==
    \A key \in DOMAIN where :
        IF key = "importance" THEN meta.importance >= where[key]
        ELSE meta[key] = where[key]

RECURSIVE SelectWhere(_, _)
SelectWhere(s, where) ==
    IF s = <<>> THEN <<>>
    ELSE IF Matches(Head(s).meta, where)
         THEN <<Head(s)>> \o SelectWhere(Tail(s), where)
         ELSE SelectWhere(Tail(s), where)

\* the k nearest documents of docs, nearest first, with their distances
Nearest(docs, query, k) ==
    LET withDist == [i \in 1..Len(docs) |->
                        [id |-> docs[i].id, text |-> docs[i].text,
                         meta |-> docs[i].meta,
                         dist |-> Distance(docs[i].text, query)]]
    IN  Slice(SortByDistance(withDist), 0, k)

\* ChromaVectorStore.search
ChromaSearch(cl, h, query, k, filter_dict, embedFails, multiKeyRaises) ==
    IF embedFails THEN [status |-> "raised", cause |-> "embedding", out |-> <<>>]
    ELSE IF ~Live(cl, h) \/ k <= 0
            \/ (multiKeyRaises /\ Cardinality(DOMAIN filter_dict) > 1)
    THEN [status |-> "raised", cause |-> "store", out |-> <<>>]
    ELSE LET results == Nearest(SelectWhere(cl.docs, filter_dict), query, k)
         IN  [status |-> "ok", cause |-> "",
              out |-> [i \in 1..Len(results) |->
                          [text |-> results[i].text, meta |-> results[i].meta,
                           score |-> 1 - results[i].dist, id |-> results[i].id]]]

\* client.delete_collection inside ChromaVectorStore.delete_collection: every
\* error is caught and printed
ChromaDeleteCollection(cl, deleteFails) ==
    IF cl.exists /\ ~deleteFails THEN [cl EXCEPT !.exists = FALSE, !.docs = <<>>]
    ELSE cl

\* ChromaVectorStore.get_collection_stats: {} when count() raises
ChromaStats(cl, h) ==
    IF Live(cl, h) THEN [has_count |-> TRUE, document_count |-> Len(cl.docs)]
    ELSE [has_count |-> FALSE, document_count |-> 0]

\* ChromaVectorStore._initialize_client: get the collection, or create it
InitializeClient(cl) ==
    IF cl.exists THEN cl
    ELSE [exists |-> TRUE, gen |-> cl.gen + 1, docs |-> <<>>]

(***************************************************************************)
(* FAISS index, as used through langchain's FAISS wrapper                  *)
(***************************************************************************)
NoIndex == [isNone |-> TRUE, docs |-> <<>>]

\* FAISS.from_texts
FromTexts(texts, metadatas, failAt) ==
    IF failAt \in 1..Len(texts)
    THEN [status |-> "raised", cause |-> "embedding", docs |-> <<>>]
    ELSE IF texts = <<>> \/ (metadatas # <<>> /\ Len(metadatas) < Len(texts))
    THEN [status |-> "raised", cause |-> "validation", docs |-> <<>>]
    ELSE [status |-> "ok", cause |-> "",
          docs |-> [i \in 1..Len(texts) |->
                       [id |-> "", text |-> texts[i],
                        meta |-> IF metadatas = <<>> THEN EmptyMeta
                                 ELSE metadatas[i]]]]

\* FAISSVectorStore.add_documents
FaissAddDocuments(idx, texts, metadatas, failAt) ==
    LET new == FromTexts(texts, metadatas, failAt)
    IN  IF new.status = "raised"
        THEN [index |-> idx, status |-> "raised", cause |-> new.cause]
        ELSE [index |-> [isNone |-> FALSE, docs |-> idx.docs \o new.docs],
              status |-> "ok", cause |-> ""]

\* FAISSVectorStore.search
FaissSearch(idx, query, k, filter_dict, embedFails) ==
    IF idx.isNone THEN [status |-> "ok", cause |-> "", out |-> <<>>]
    ELSE IF embedFails THEN [status |-> "raised", cause |-> "embedding", out |-> <<>>]
    ELSE LET results == Nearest(idx.docs, query, k)
         IN  [status |-> "ok", cause |-> "",
              out |-> [i \in 1..Len(results) |->
                          [text |-> results[i].text, meta |-> results[i].meta,
                           score |-> results[i].dist, id |-> ""]]]

\* FAISSVectorStore.get_collection_stats
FaissStats(idx) == [has_count |-> TRUE, document_count |-> Len(idx.docs)]

(***************************************************************************)
(* DocumentIndexer.search: builds the filter and calls the store           *)
(***************************************************************************)
\* None is "" for the two strings and 0 for min_importance (all falsy)
BuildFilter(filter_by_chapter, filter_by_content_type, min_importance) ==
    [key \in (IF filter_by_chapter # "" THEN {"chapter"} ELSE {})
             \cup (IF filter_by_content_type # "" THEN {"content_type"} ELSE {})
             \cup (IF min_importance # 0 THEN {"importance"} ELSE {}) |->
        CASE key = "chapter" -> filter_by_chapter
          [] key = "content_type" -> filter_by_content_type
          [] OTHER -> min_importance]

StoreSearch(be, cl, h, idx, query, k, filter_dict, embedFails, multiKeyRaises) ==
    IF be = "chromadb"
    THEN ChromaSearch(cl, h, query, k, filter_dict, embedFails, multiKeyRaises)
    ELSE FaissSearch(idx, query, k, filter_dict, embedFails)

IndexerSearch(be, cl, h, idx, query, k, fc, fct, mi, embedFails, multiKeyRaises) ==
    StoreSearch(be, cl, h, idx, query, k, BuildFilter(fc, fct, mi),
                embedFails, multiKeyRaises)

(***************************************************************************)
(* The store object: construction and operations                           *)
(***************************************************************************)
NoClient == [exists |-> FALSE, gen |-> 0, docs |-> <<>>]

\* a response of the enhanced API
Response(endpoint, status_code) ==
    [endpoint |-> endpoint, status_code |-> status_code, raised |-> FALSE,
     answer_count |-> 0]

\* the enhanced API before its startup event
\* a ContentBlock (pdf_processor.py); metadata is a dict
ContentBlock(text, content_type, page, chapter, importance, metadata) ==
    [text |-> text, content_type |-> content_type, page |-> page,
     chapter |-> chapter, importance |-> importance, metadata |-> metadata]

NoBlock == ContentBlock(<<>>, "text", 0, <<>>, 1, <<>>)
NotChunked == [done |-> FALSE, out |-> <<>>]
NoCall == [op |-> "none"]
NoRun == [called |-> FALSE]

InitPipeVars ==
    /\ chunk_cfg = [size |-> 1000, overlap |-> 200]
    /\ block = NoBlock
    /\ block_chunks = NotChunked
    /\ cls = NoCall
    /\ run = NoRun

\* a FAISS store object that has not been used
IdleStore ==
    /\ backend = "faiss"
    /\ batch_size = 1
    /\ client = NoClient
    /\ collection = 0
    /\ index = NoIndex
    /\ ret = Outcome("init", "ok", "")

InitApiVars ==
    /\ indexer = FALSE
    /\ is_indexed = FALSE
    /\ resp = Response("none", 0)
    /\ index_store = [isNone |-> TRUE, docs |-> <<>>]
    /\ document_metadata = [page_content |-> <<>>, module_info |-> <<>>]
    /\ qs = [called |-> FALSE, query |-> <<>>, vector_raised |-> FALSE,
             lookup_raised |-> FALSE, results |-> <<>>]
    /\ pdf_resp = 0

\* get_vector_store(): a store object of the configured class
InitStore ==
    /\ InitApiVars
    /\ InitPipeVars
    /\ backend \in {"chromadb", "faiss"}
    /\ batch_size \in 1..MaxBatch
    /\ client = IF backend = "chromadb" THEN InitializeClient(NoClient) ELSE NoClient
    /\ collection = client.gen
    /\ index = NoIndex
    /\ ret = Outcome("init", "ok", "")

Stored == IF backend = "chromadb" THEN client.docs ELSE index.docs

\* the ids given by a caller for a call of n texts
IdChoices(n) == {NoIds} \cup {[given |-> TRUE, ids |-> s] : s \in [1..n -> CallerIds]}

\* VectorStore.add_documents of the store object
StoreAdd(be, cl, h, idx, texts, metadatas, ids, failAt, bs, dupRaises) ==
    IF be = "chromadb"
    THEN [index |-> idx] @@
         ChromaAddDocuments(cl, h, texts, metadatas, ids, failAt, bs, dupRaises)
    ELSE [client |-> cl] @@ FaissAddDocuments(idx, texts, metadatas, failAt)

\* VectorStore.add_documents
AddDocuments ==
    \E texts \in SeqsUpTo(Texts, MaxCall), metadatas \in SeqsUpTo(Metas, MaxCall) :
    \E ids \in IdChoices(Len(texts)), failAt \in 0..Len(texts), dupRaises \in BOOLEAN :
        /\ Len(Stored) + Len(texts) <= MaxDocs
        /\ LET r == StoreAdd(backend, client, collection, index, texts, metadatas,
                             ids, failAt, batch_size, dupRaises)
               generated == backend = "chromadb" /\ ~ids.given /\ texts # <<>>
                            /\ Live(client, collection)
           IN  /\ client' = r.client
               /\ index' = r.index
               /\ ret' = [Outcome("add", r.status, r.cause) EXCEPT
                             !.nTexts = Len(texts), !.nMetas = Len(metadatas),
                             !.failAt = failAt, !.idsGiven = ids.given,
                             !.generated = generated,
                             !.ids = IF generated THEN CallIds(client, texts, ids)
                                     ELSE <<>>]
        /\ UNCHANGED <<backend, batch_size, collection>>
        /\ UNCHANGED apiVars
    /\ UNCHANGED <<legacyVars, pipeVars>>
        /\ UNCHANGED <<legacyVars, pipeVars>>

\* DocumentIndexer.search over the store, with the given inputs
SearchWith(ks, chapters, content_types, importances) ==
    \E query \in Queries, k \in ks, fc \in chapters, fct \in content_types :
    \E mi \in importances, embedFails \in BOOLEAN, multiKeyRaises \in BOOLEAN :
        /\ LET r == IndexerSearch(backend, client, collection, index, query, k,
                                  fc, fct, mi, embedFails, multiKeyRaises)
           IN  ret' = [Outcome("search", r.status, r.cause) EXCEPT
                          !.out = r.out, !.k = k, !.filter = BuildFilter(fc, fct, mi)]
        /\ UNCHANGED <<backend, batch_size, client, collection, index>>
        /\ UNCHANGED apiVars
    /\ UNCHANGED <<legacyVars, pipeVars>>
        /\ UNCHANGED <<legacyVars, pipeVars>>

\* a search without a filter
Search == SearchWith(1..MaxK, {""}, {""}, {0})

\* a search with or without a filter
FilteredSearch == SearchWith(1..MaxK, {"", "2.5.2"}, {"", "table"}, {0, 2})

\* VectorStore.delete_collection
DeleteCollection ==
    \E deleteFails \in BOOLEAN :
        /\ client' = IF backend = "chromadb"
                     THEN ChromaDeleteCollection(client, deleteFails) ELSE client
        /\ index' = IF backend = "chromadb" THEN index ELSE NoIndex
        /\ ret' = Outcome("delete", "ok", "")
        /\ UNCHANGED <<backend, batch_size, collection>>
        /\ UNCHANGED apiVars
    /\ UNCHANGED <<legacyVars, pipeVars>>
        /\ UNCHANGED <<legacyVars, pipeVars>>

\* VectorStore.get_collection_stats
GetCollectionStats ==
    /\ LET r == IF backend = "chromadb" THEN ChromaStats(client, collection)
                ELSE FaissStats(index)
       IN  ret' = [Outcome("stats", "ok", "") EXCEPT
                      !.has_count = r.has_count, !.document_count = r.document_count]
    /\ UNCHANGED <<backend, batch_size, client, collection, index>>
    /\ UNCHANGED apiVars
    /\ UNCHANGED <<legacyVars, pipeVars>>

\* get_vector_store() again: a new store object replaces the old one
NewStore ==
    /\ backend = "chromadb" => (client.exists \/ client.gen < MaxGen)
    /\ client' = IF backend = "chromadb" THEN InitializeClient(client) ELSE client
    /\ collection' = client'.gen
    /\ index' = NoIndex
    /\ ret' = Outcome("init", "ok", "")
    /\ UNCHANGED <<backend, batch_size>>
    /\ UNCHANGED apiVars
    /\ UNCHANGED <<legacyVars, pipeVars>>

vars == <<backend, batch_size, client, collection, index, ret,
          indexer, is_indexed, resp,
          index_store, document_metadata, qs, pdf_resp,
          chunk_cfg, block, block_chunks, cls, run>>

NextStore ==
    \/ AddDocuments
    \/ Search
    \/ DeleteCollection
    \/ GetCollectionStats
    \/ NewStore

\* the life of one store
SpecStore == InitStore /\ [][NextStore]_vars

\* a store after one add_documents call without ids
InitSearch ==
    /\ InitApiVars
    /\ InitPipeVars
    /\ backend \in {"chromadb", "faiss"}
    /\ batch_size \in 1..MaxBatch
    /\ \E n \in 0..MaxDocs : \E texts \in [1..n -> Texts], metadatas \in [1..n -> Metas] :
        /\ client = IF backend = "chromadb"
                    THEN ChromaAddDocuments(InitializeClient(NoClient), 1, texts,
                                            metadatas, NoIds, 0, batch_size, FALSE).client
                    ELSE NoClient
        /\ index = IF backend = "chromadb" \/ n = 0 THEN NoIndex
                   ELSE FaissAddDocuments(NoIndex, texts, metadatas, 0).index
    /\ collection = client.gen
    /\ ret = Outcome("add", "ok", "")

NextSearch == FilteredSearch

\* searches of a filled store
SpecSearch == InitSearch /\ [][NextSearch]_vars

(***************************************************************************)
(* One ChromaVectorStore used by a writer and a reader at the same time:   *)
(* add_documents proceeds one collection.add at a time, and search and     *)
(* delete_collection of other callers run between its steps.  The class    *)
(* holds no lock.                                                          *)
(***************************************************************************)
MaxWrite == 3       \* texts of the add_documents call in flight
MaxHeld == 3        \* documents the shared collection holds at most

Idle == [pc |-> "idle", texts |-> <<>>, metadatas |-> <<>>, ids |-> <<>>, i |-> 0]

InitShared ==
    /\ InitApiVars
    /\ chunk_cfg = [size |-> 1000, overlap |-> 200]
    /\ block = NoBlock
    /\ block_chunks = NotChunked
    /\ cls = NoCall
    /\ run = Idle
    /\ backend = "chromadb"
    /\ batch_size \in 1..MaxBatch
    /\ client = InitializeClient(NoClient)
    /\ collection = client.gen
    /\ index = NoIndex
    /\ ret = Outcome("init", "ok", "")

\* add_documents up to its batch loop: the ids from collection.count(), the
\* embeddings of all texts
BeginAdd ==
    \E n \in 1..MaxWrite : \E texts \in [1..n -> Texts], failAt \in 0..n :
        /\ run.pc = "idle"
        /\ Len(client.docs) + n <= MaxHeld
        /\ IF ~Live(client, collection)
           THEN /\ ret' = [Outcome("add", "raised", "store") EXCEPT !.nTexts = n]
                /\ run' = Idle
           ELSE IF failAt # 0
           THEN /\ ret' = [Outcome("add", "raised", "embedding") EXCEPT
                              !.nTexts = n, !.failAt = failAt]
                /\ run' = Idle
           ELSE /\ ret' = [Outcome("add", "running", "") EXCEPT !.nTexts = n]
                /\ run' = [pc |-> "adding", texts |-> texts,
                           metadatas |-> [j \in 1..n |-> EmptyMeta],
                           ids |-> CallIds(client, texts, NoIds), i |-> 0]
        /\ UNCHANGED <<backend, batch_size, client, collection, index>>
        /\ UNCHANGED <<apiVars, legacyVars, chunk_cfg, block, block_chunks, cls>>

\* one iteration of the batch loop: collection.add of texts[i:end_idx]
AddBatch ==
    /\ run.pc = "adding"
    /\ LET end_idx == Min(run.i + batch_size, Len(run.texts))
           r == CollectionAdd(client, collection, Slice(run.texts, run.i, end_idx),
                              Slice(run.metadatas, run.i, end_idx),
                              Slice(run.ids, run.i, end_idx), FALSE)
       IN  /\ client' = r.client
           /\ IF r.status = "raised"
              THEN /\ ret' = [Outcome("add", "raised", r.cause) EXCEPT
                                 !.nTexts = Len(run.texts)]
                   /\ run' = Idle
              ELSE IF run.i + batch_size >= Len(run.texts)
              THEN /\ ret' = [Outcome("add", "ok", "") EXCEPT
                                 !.nTexts = Len(run.texts)]
                   /\ run' = Idle
              ELSE /\ ret' = ret
                   /\ run' = [run EXCEPT !.i = @ + batch_size]
    /\ UNCHANGED <<backend, batch_size, collection, index>>
    /\ UNCHANGED <<apiVars, legacyVars, chunk_cfg, block, block_chunks, cls>>

\* search of another caller; ret keeps the ids of the call in flight
SharedSearch ==
    \E query \in Queries :
        /\ LET r == ChromaSearch(client, collection, query, MaxHeld, NoFilter,
                                 FALSE, FALSE)
           IN  ret' = [Outcome("search", r.status, r.cause) EXCEPT
                          !.out = r.out, !.k = MaxHeld, !.ids = run.ids,
                          !.nTexts = Len(run.texts)]
        /\ UNCHANGED <<backend, batch_size, client, collection, index, run>>
        /\ UNCHANGED <<apiVars, legacyVars, chunk_cfg, block, block_chunks, cls>>

\* delete_collection of another caller
SharedDelete ==
    /\ client.exists
    /\ client' = ChromaDeleteCollection(client, FALSE)
    /\ ret' = Outcome("delete", "ok", "")
    /\ UNCHANGED <<backend, batch_size, collection, index, run>>
    /\ UNCHANGED <<apiVars, legacyVars, chunk_cfg, block, block_chunks, cls>>

\* a new store object after the collection was deleted
SharedNewStore ==
    /\ run.pc = "idle"
    /\ ~client.exists
    /\ client.gen < MaxGen
    /\ client' = InitializeClient(client)
    /\ collection' = client'.gen
    /\ ret' = Outcome("init", "ok", "")
    /\ UNCHANGED <<backend, batch_size, index, run>>
    /\ UNCHANGED <<apiVars, legacyVars, chunk_cfg, block, block_chunks, cls>>

NextShared ==
    \/ BeginAdd
    \/ AddBatch
    \/ SharedSearch
    \/ SharedDelete
    \/ SharedNewStore

\* a writer and other callers on one store
SpecShared == InitShared /\ [][NextShared]_vars

(***************************************************************************)
(* The batches of one indexing run sent to a ChromaVectorStore by workers: *)
(* each worker takes any batch that is left and calls add_documents, which *)
(* reads collection.count() for the ids and then adds the batch.           *)
(***************************************************************************)
MaxRunChunks == 3   \* chunks of the indexing run
MaxWorkers == 2     \* workers that send batches

\* texts[i:i + batch_size] of batch b (0-based)
BatchOf(chunks, b, bs) == Slice(chunks, b * bs, b * bs + bs)

InitWorkers ==
    /\ InitApiVars
    /\ chunk_cfg = [size |-> 1000, overlap |-> 200]
    /\ block = NoBlock
    /\ block_chunks = NotChunked
    /\ cls = NoCall
    /\ backend = "chromadb"
    /\ batch_size \in 1..MaxBatch
    /\ client = InitializeClient(NoClient)
    /\ collection = client.gen
    /\ index = NoIndex
    /\ ret = Outcome("init", "ok", "")
    /\ \E n \in 1..MaxRunChunks : \E texts \in [1..n -> Texts], dupRaises \in BOOLEAN :
           run = [texts |-> texts,
                  metadatas |-> [i \in 1..n |-> EmptyMeta],
                  pending |-> {b \in 0..(n - 1) : b * batch_size < n},
                  worker |-> [w \in 1..MaxWorkers |-> [pc |-> "idle", b |-> 0, ids |-> <<>>]],
                  dupRaises |-> dupRaises,
                  rejected |-> 0]

\* a worker takes a batch and runs add_documents up to its collection.add:
\* the ids are doc_{count + i}
TakeBatch ==
    \E w \in 1..MaxWorkers, b \in run.pending :
        /\ run.worker[w].pc = "idle"
        /\ run' = [run EXCEPT
                      !.pending = @ \ {b},
                      !.worker[w] = [pc |-> "adding", b |-> b,
                                     ids |-> CallIds(client,
                                                     BatchOf(run.texts, b, batch_size),
                                                     NoIds)]]
        /\ ret' = Outcome("add", "running", "")
        /\ UNCHANGED <<backend, batch_size, client, collection, index>>
        /\ UNCHANGED <<apiVars, legacyVars, chunk_cfg, block, block_chunks, cls>>

\* the collection.add of the worker's batch; an exception ends the call
SendBatch ==
    \E w \in 1..MaxWorkers :
        /\ run.worker[w].pc = "adding"
        /\ LET r == CollectionAdd(client, collection,
                                  BatchOf(run.texts, run.worker[w].b, batch_size),
                                  BatchOf(run.metadatas, run.worker[w].b, batch_size),
                                  run.worker[w].ids, run.dupRaises)
           IN  /\ client' = r.client
               /\ ret' = Outcome("add", r.status, r.cause)
               /\ run' = [run EXCEPT
                             !.worker[w] = [pc |-> "idle", b |-> 0, ids |-> <<>>],
                             !.rejected = IF r.status = "raised" THEN @ + 1 ELSE @]
        /\ UNCHANGED <<backend, batch_size, collection, index>>
        /\ UNCHANGED <<apiVars, legacyVars, chunk_cfg, block, block_chunks, cls>>

NextWorkers ==
    \/ TakeBatch
    \/ SendBatch

\* one indexing run whose batches are sent by workers in any order
SpecWorkers == InitWorkers /\ [][NextWorkers]_vars

(***************************************************************************)
(* The enhanced API (app_new.py) over DocumentIndexer                      *)
(***************************************************************************)
MaxPage == 2        \* largest page number of a /query request

\* what the PDF processor and the chunker hand to the indexing phase
Chunks == [text : Texts, metadata : Metas]

\* the batch loop of DocumentIndexer.process_and_index; failAt is the position
\* of the chunk whose embedding cannot be generated (0: none)
RECURSIVE IndexBatches(_, _, _, _, _, _, _, _, _, _)
IndexBatches(be, cl, h, idx, texts, metadatas, bs, i, failAt, dupRaises) ==
    IF i >= Len(texts)
    THEN [client |-> cl, index |-> idx, status |-> "ok", cause |-> ""]
    ELSE LET end_idx == Min(i + bs, Len(texts))
             fail == IF failAt \in (i + 1)..end_idx THEN failAt - i ELSE 0
             r == StoreAdd(be, cl, h, idx, Slice(texts, i, end_idx),
                           Slice(metadatas, i, end_idx), NoIds, fail, bs, dupRaises)
         IN  IF r.status = "raised" THEN r
             ELSE IndexBatches(be, r.client, h, r.index, texts, metadatas, bs,
                               i + bs, failAt, dupRaises)

\* DocumentIndexer.process_and_index; pdfFails: processing the PDF raises
ProcessAndIndex(be, cl, h, idx, chunks, pdfFails, failAt, bs, dupRaises) ==
    IF pdfFails
    THEN [client |-> cl, index |-> idx, status |-> "raised", cause |-> "pdf"]
    ELSE IndexBatches(be, cl, h, idx,
                      [i \in 1..Len(chunks) |-> chunks[i].text],
                      [i \in 1..Len(chunks) |-> chunks[i].metadata],
                      bs, 0, failAt, dupRaises)

InitApi ==
    /\ InitApiVars
    /\ InitPipeVars
    /\ backend \in {"chromadb", "faiss"}
    /\ batch_size \in 1..MaxBatch
    /\ client = NoClient
    /\ collection = 0
    /\ index = NoIndex
    /\ ret = Outcome("init", "ok", "")

\* the process starts: startup_event; constructFails: DocumentIndexer() raises
Startup ==
    \E constructFails \in BOOLEAN :
        /\ backend = "chromadb" => (constructFails \/ client.exists \/ client.gen < MaxGen)
        /\ indexer' = ~constructFails
        /\ client' = IF backend = "chromadb" /\ ~constructFails
                     THEN InitializeClient(client) ELSE client
        /\ collection' = IF constructFails THEN 0 ELSE client'.gen
        /\ index' = NoIndex
        /\ is_indexed' = (~constructFails /\ backend = "chromadb"
                          /\ ChromaStats(client', client'.gen).document_count > 0)
        /\ resp' = Response("startup", 0)
        /\ UNCHANGED <<backend, batch_size, ret>>
        /\ UNCHANGED <<legacyVars, pipeVars>>

\* reindex_documents(request); chunks is what the PDF processor and the
\* chunker make of the requested page range, max_docs bounds the store
ReindexDocuments(force_reindex, deleteFails, constructFails, chunks, pdfFails, failAt, dupRaises, max_docs) ==
    IF ~indexer
      THEN /\ resp' = Response("reindex", 500)
           /\ UNCHANGED <<backend, batch_size, client, collection, index, ret,
                          indexer, is_indexed>>
      ELSE LET \* indexer.vector_store.delete_collection()
               cl1 == IF force_reindex /\ backend = "chromadb"
                      THEN ChromaDeleteCollection(client, deleteFails) ELSE client
               idx1 == IF force_reindex THEN NoIndex ELSE index
               \* indexer = DocumentIndexer()
               rebuilt == force_reindex /\ ~constructFails
               cl2 == IF rebuilt /\ backend = "chromadb"
                      THEN InitializeClient(cl1) ELSE cl1
               h2 == IF rebuilt THEN cl2.gen ELSE collection
               r == IF force_reindex /\ constructFails
                    THEN [client |-> cl1, index |-> idx1, status |-> "raised",
                          cause |-> "construct"]
                    ELSE ProcessAndIndex(backend, cl2, h2, idx1, chunks, pdfFails,
                                         failAt, batch_size, dupRaises)
           IN  /\ cl2.gen <= MaxGen
               /\ Len(IF backend = "chromadb" THEN cl2.docs ELSE idx1.docs)
                      + Len(chunks) <= max_docs
               /\ client' = r.client
               /\ index' = r.index
               /\ collection' = h2
               /\ is_indexed' = IF r.status = "ok" THEN TRUE ELSE is_indexed
               /\ resp' = Response("reindex", IF r.status = "ok" THEN 200 ELSE 500)
               /\ UNCHANGED <<backend, batch_size, ret, indexer>>

\* POST /reindex
Reindex ==
    \E force_reindex \in BOOLEAN, deleteFails \in BOOLEAN, constructFails \in BOOLEAN :
    \E chunks \in SeqsUpTo(Chunks, MaxCall), pdfFails \in BOOLEAN :
    \E failAt \in 0..Len(chunks), dupRaises \in BOOLEAN :
      /\ ReindexDocuments(force_reindex, deleteFails, constructFails, chunks, pdfFails,
                          failAt, dupRaises, MaxDocs)
      /\ UNCHANGED <<legacyVars, pipeVars>>

\* POST /query of the enhanced API
HandleQuery ==
    \E query \in Queries, page \in 1..MaxPage, page_size \in 1..MaxK :
    \E fc \in {"", "2.5.2"}, fct \in {"", "table"}, mi \in {0, 2} :
    \E embedFails \in BOOLEAN, multiKeyRaises \in BOOLEAN :
        /\ IF ~indexer \/ ~is_indexed
           THEN resp' = Response("query", 503)
           ELSE LET r == IndexerSearch(backend, client, collection, index, query,
                                       page_size * page, fc, fct, mi,
                                       embedFails, multiKeyRaises)
                    start_idx == (page - 1) * page_size
                    page_results == Slice(r.out, start_idx, start_idx + page_size)
                IN  resp' = IF r.status = "raised"
                            THEN [Response("query", 500) EXCEPT !.raised = TRUE]
                            ELSE [Response("query", 200) EXCEPT
                                     !.answer_count = Len(page_results)]
        /\ UNCHANGED <<backend, batch_size, client, collection, index, ret,
                       indexer, is_indexed>>
        /\ UNCHANGED <<legacyVars, pipeVars>>

\* POST /ai-query of the enhanced API; an Ollama error becomes the answer text
AiQuery ==
    \E query \in Queries, context_limit \in 1..MaxK, embedFails \in BOOLEAN :
        /\ IF ~indexer \/ ~is_indexed
           THEN resp' = Response("ai-query", 503)
           ELSE LET r == IndexerSearch(backend, client, collection, index, query,
                                       context_limit, "", "", 0, embedFails, FALSE)
                IN  resp' = IF r.status = "raised"
                            THEN [Response("ai-query", 500) EXCEPT !.raised = TRUE]
                            ELSE [Response("ai-query", 200) EXCEPT
                                     !.answer_count = Len(Slice(r.out, 0, 5))]
        /\ UNCHANGED <<backend, batch_size, client, collection, index, ret,
                       indexer, is_indexed>>
        /\ UNCHANGED <<legacyVars, pipeVars>>

NextApi ==
    \/ Startup
    \/ Reindex
    \/ HandleQuery
    \/ AiQuery

\* the enhanced API
SpecApi == InitApi /\ [][NextApi]_vars

(***************************************************************************)
(* POST /reindex of page ranges of one PDF                                 *)
(***************************************************************************)
MaxRangePage == 2   \* pages of the PDF
MaxRuns == 2        \* /reindex requests

\* the chunk the PDF processor and the chunker make of page p
PageChunk(p) ==
    [text |-> IF p % 2 = 1 THEN "t0" ELSE "t1",
     metadata |-> [chapter |-> IF p = 1 THEN "2.5.2" ELSE "1.1",
                   content_type |-> IF p = 1 THEN "text" ELSE "table",
                   importance |-> IF p = 1 THEN 4 ELSE 1]]

\* the chunks of the pages range(start_page, end_page + 1), end_page clipped
\* to the pages of the PDF
RangeChunks(start_page, end_page) ==
    LET last == Min(end_page, MaxRangePage)
    IN  [i \in 1..(last - start_page + 1) |-> PageChunk(start_page + i - 1)]

\* no /reindex request yet
NoRequest ==
    [called |-> FALSE, runs |-> 0, start_page |-> 0, end_page |-> 0,
     force_reindex |-> FALSE, status_code |-> 0]

\* the enhanced API before its startup event
InitRanges ==
    /\ InitApiVars
    /\ backend \in {"chromadb", "faiss"}
    /\ batch_size \in 1..MaxBatch
    /\ client = NoClient
    /\ collection = 0
    /\ index = NoIndex
    /\ ret = Outcome("init", "ok", "")
    /\ chunk_cfg = [size |-> 1000, overlap |-> 200]
    /\ block = NoBlock
    /\ block_chunks = NotChunked
    /\ cls = NoCall
    /\ run = NoRequest

\* POST /reindex with an IndexRequest for the pages start_page..end_page
ReindexRange ==
    \E start_page \in 1..MaxRangePage, end_page \in 1..MaxRangePage :
    \E force_reindex \in BOOLEAN, deleteFails \in BOOLEAN, constructFails \in BOOLEAN :
    \E pdfFails \in BOOLEAN, dupRaises \in BOOLEAN :
    \E failAt \in 0..Len(RangeChunks(start_page, end_page)) :
        /\ run.runs < MaxRuns
        /\ ReindexDocuments(force_reindex, deleteFails, constructFails,
                            RangeChunks(start_page, end_page), pdfFails, failAt,
                            dupRaises, MaxRuns * MaxRangePage)
        /\ run' = [called |-> TRUE, runs |-> run.runs + 1,
                   start_page |-> start_page, end_page |-> end_page,
                   force_reindex |-> force_reindex,
                   status_code |-> resp'.status_code]
        /\ UNCHANGED <<chunk_cfg, block, block_chunks, cls>>
        /\ UNCHANGED legacyVars

NextRanges ==
    \/ Startup
    \/ ReindexRange
    \/ HandleQuery

\* the enhanced API indexing page ranges of one PDF
SpecRanges == InitRanges /\ [][NextRanges]_vars

(***************************************************************************)
(* DocumentIndexer.process_and_index on a new store                        *)
(***************************************************************************)
MaxChunks == 3      \* chunks of one indexing run

\* a DocumentIndexer on an empty store, the chunks its PDF gives and the
\* position of the chunk whose embedding cannot be generated (0: none)
InitIndexing ==
    /\ InitApiVars
    /\ backend \in {"chromadb", "faiss"}
    /\ batch_size \in 1..MaxBatch
    /\ client = IF backend = "chromadb" THEN InitializeClient(NoClient) ELSE NoClient
    /\ collection = client.gen
    /\ index = NoIndex
    /\ ret = Outcome("init", "ok", "")
    /\ chunk_cfg = [size |-> 1000, overlap |-> 200]
    /\ block = NoBlock
    /\ block_chunks = NotChunked
    /\ cls = NoCall
    /\ \E chunks \in SeqsUpTo(Chunks, MaxChunks) :
       \E failAt \in 0..Len(chunks) :
           run = [called |-> FALSE, chunks |-> chunks, failAt |-> failAt,
                  pdfFails |-> FALSE, status |-> "none"]

\* indexer.process_and_index()
CallProcessAndIndex ==
    /\ ~run.called
    /\ \E pdfFails \in BOOLEAN, dupRaises \in BOOLEAN :
           LET r == ProcessAndIndex(backend, client, collection, index, run.chunks,
                                    pdfFails, run.failAt, batch_size, dupRaises)
           IN  /\ client' = r.client
               /\ index' = r.index
               /\ run' = [run EXCEPT !.called = TRUE, !.pdfFails = pdfFails,
                                     !.status = r.status]
    /\ UNCHANGED <<backend, batch_size, collection, ret>>
    /\ UNCHANGED <<chunk_cfg, block, block_chunks, cls>>
    /\ UNCHANGED <<apiVars, legacyVars>>

NextIndexing == CallProcessAndIndex

\* one indexing run
SpecIndexing == InitIndexing /\ [][NextIndexing]_vars

(***************************************************************************)
(* Python strings, as sequences of characters                              *)
(***************************************************************************)
UpperCase == <<"A", "B", "C", "D", "E", "F", "G", "H", "I", "J", "K", "L", "M",
               "N", "O", "P", "Q", "R", "S", "T", "U", "V", "W", "X", "Y", "Z">>
LowerCase == <<"a", "b", "c", "d", "e", "f", "g", "h", "i", "j", "k", "l", "m",
               "n", "o", "p", "q", "r", "s", "t", "u", "v", "w", "x", "y", "z">>

\* the characters U+03A3, U+03C3 and U+03C2 are written by their names
Cased == Range(UpperCase) \cup Range(LowerCase) \cup {"SIGMA", "sigma", "final_sigma"}
CaseIgnorable == {".", "'", ":"}

LowerOf == [c \in Range(UpperCase) |->
                LowerCase[CHOOSE i \in 1..Len(UpperCase) : UpperCase[i] = c]]

LowerChar(c) == IF c \in DOMAIN LowerOf THEN LowerOf[c] ELSE c

\* whether the capital sigma at position i is in the final-sigma context:
\* behind a cased character and not in front of one, case-ignorable
\* characters skipped
FinalSigma(str, i) ==
    LET before == {j \in 1..(i - 1) : str[j] \notin CaseIgnorable}
        after == {j \in (i + 1)..Len(str) : str[j] \notin CaseIgnorable}
    IN  /\ before # {}
        /\ str[CHOOSE j \in before : \A x \in before : x <= j] \in Cased
        /\ after = {} \/ str[CHOOSE j \in after : \A x \in after : j <= x] \notin Cased

\* str.lower()
Lower(str) ==
    [i \in 1..Len(str) |->
        IF str[i] = "SIGMA"
        THEN (IF FinalSigma(str, i) THEN "final_sigma" ELSE "sigma")
        ELSE LowerChar(str[i])]

\* \s
IsSpace(c) == c \in {" ", "\n", "\t"}

\* \d
IsDigit(c) == c \in {"0", "1", "2", "3", "4", "5", "6", "7", "8", "9"}

\* pat in str
Contains(str, pat) ==
    \E i \in 1..(Len(str) - Len(pat) + 1) : SubSeq(str, i, i + Len(pat) - 1) = pat

\* str.startswith(pat)
StartsWith(str, pat) == Len(pat) <= Len(str) /\ SubSeq(str, 1, Len(pat)) = pat

\* the end (exclusive) of the longest run of characters in cs from position j
RunEnd(str, j, cs) ==
    CHOOSE e \in j..(Len(str) + 1) :
        /\ \A x \in j..(e - 1) : str[x] \in cs
        /\ e = Len(str) + 1 \/ str[e] \notin cs

Spaces == {" ", "\n", "\t"}
Digits == {"0", "1", "2", "3", "4", "5", "6", "7", "8", "9"}

\* str.strip()
Strip(str) ==
    IF \A i \in 1..Len(str) : IsSpace(str[i]) THEN <<>>
    ELSE LET first == CHOOSE i \in 1..Len(str) :
                          ~IsSpace(str[i]) /\ \A j \in 1..(i - 1) : IsSpace(str[j])
             last == CHOOSE i \in 1..Len(str) :
                          ~IsSpace(str[i]) /\ \A j \in (i + 1)..Len(str) : IsSpace(str[j])
         IN  SubSeq(str, first, last)

\* str.split(): the words between runs of whitespace
RECURSIVE SplitFrom(_, _)
SplitFrom(str, i) ==
    IF i > Len(str) THEN <<>>
    ELSE IF IsSpace(str[i]) THEN SplitFrom(str, i + 1)
    ELSE LET e == RunEnd(str, i, {str[x] : x \in 1..Len(str)} \ Spaces)
         IN  <<SubSeq(str, i, e - 1)>> \o SplitFrom(str, e)

Split(str) == SplitFrom(str, 1)

S_major_steps ==
    <<"m", "a", "j", "o", "r", " ", "s", "t", "e", "p", "s">>
S_business_rules ==
    <<"b", "u", "s", "i", "n", "e", "s", "s", " ", "r", "u", "l", "e", "s">>
S_step ==
    <<"s", "t", "e", "p">>
S_produc ==
    <<"p", "r", "o", "d", "u", "c">>
S_business_rule ==
    <<"b", "u", "s", "i", "n", "e", "s", "s", " ", "r", "u", "l", "e">>
S_13_step ==
    <<"1", "3", " ", "s", "t", "e", "p">>
S_thirteen_step ==
    <<"t", "h", "i", "r", "t", "e", "e", "n", " ", "s", "t", "e", "p">>
S_steps_in ==
    <<"s", "t", "e", "p", "s", " ", "i", "n">>
S_252 ==
    <<"2", ".", "5", ".", "2">>
S_25 ==
    <<"2", ".", "5">>
S_13_steps ==
    <<"1", "3", " ", "s", "t", "e", "p", "s">>
S_thirteen_steps ==
    <<"t", "h", "i", "r", "t", "e", "e", "n", " ", "s", "t", "e", "p", "s">>
S_Chapter ==
    <<"C", "h", "a", "p", "t", "e", "r">>
S_Undefined ==
    <<"U", "n", "d", "e", "f", "i", "n", "e", "d">>
S_Introduction ==
    <<"I", "n", "t", "r", "o", "d", "u", "c", "t", "i", "o", "n">>

\* MODULE_PATTERN = Chapter\s+(\d+\.\d+(?:\.\d+)?) matched at position i:
\* the end (exclusive) of group 1 and its start, or 0 when there is no match
ModuleMatchAt(str, i) ==
    IF ~(i + Len(S_Chapter) <= Len(str) /\ SubSeq(str, i, i + Len(S_Chapter) - 1) = S_Chapter)
    THEN [start |-> 0, end |-> 0]
    ELSE LET a == i + Len(S_Chapter)
             b == RunEnd(str, a, Spaces)
             c == RunEnd(str, b, Digits)
             d == IF c <= Len(str) /\ str[c] = "." THEN RunEnd(str, c + 1, Digits) ELSE 0
             e == IF d > 0 /\ d <= Len(str) /\ str[d] = "."
                  THEN RunEnd(str, d + 1, Digits) ELSE 0
         IN  IF b = a \/ c = b \/ d = 0 \/ d = c + 1 THEN [start |-> 0, end |-> 0]
             ELSE IF e > d + 1 THEN [start |-> b, end |-> e]
             ELSE [start |-> b, end |-> d]

\* module_match.group(1) of MODULE_PATTERN.search(text), or "Undefined"
ModuleName(str) ==
    IF \E i \in 1..Len(str) : ModuleMatchAt(str, i).start > 0
    THEN LET i == CHOOSE i \in 1..Len(str) :
                      /\ ModuleMatchAt(str, i).start > 0
                      /\ \A j \in 1..(i - 1) : ModuleMatchAt(str, j).start = 0
             m == ModuleMatchAt(str, i)
         IN  SubSeq(str, m.start, m.end - 1)
    ELSE S_Undefined

\* the length of the match of [1-9][0-9]?\.\s at position i, or 0
NumberedAt(str, i) ==
    IF ~(IsDigit(str[i]) /\ str[i] # "0") THEN 0
    ELSE IF i + 3 <= Len(str) /\ IsDigit(str[i + 1]) /\ str[i + 2] = "."
            /\ IsSpace(str[i + 3]) THEN 4
    ELSE IF i + 2 <= Len(str) /\ str[i + 1] = "." /\ IsSpace(str[i + 2]) THEN 3
    ELSE 0

\* re.search(r'[1-9][0-9]?\.\s', text)
HasNumbered(str) == \E i \in 1..Len(str) : NumberedAt(str, i) > 0

\* len(re.findall(r'[1-9][0-9]?\.\s', text))
RECURSIVE CountNumberedFrom(_, _)
CountNumberedFrom(str, i) ==
    IF i > Len(str) THEN 0
    ELSE IF NumberedAt(str, i) > 0
         THEN 1 + CountNumberedFrom(str, i + NumberedAt(str, i))
         ELSE CountNumberedFrom(str, i + 1)

CountNumbered(str) == CountNumberedFrom(str, 1)

(***************************************************************************)
(* Page texts and queries of the legacy API part                            *)
(***************************************************************************)
PageKnown ==
    <<"C", "h", "a", "p", "t", "e", "r", " ", "2", ".", "5", ".", "2", "\n",
      "T", "h", "e", "r", "e", " ", "a", "r", "e", " ", "1", "3", " ", "s",
      "t", "e", "p", "s">>
PageOther ==
    <<"C", "h", "a", "p", "t", "e", "r", " ", "2", ".", "5", ".", "1", " ",
      "b", "u", "s", "i", "n", "e", "s", "s", " ", "r", "u", "l", "e", " ",
      "1", "3", " ", "s", "t", "e", "p", "s", " ", "1", ".", " ", "2", ".",
      " ", "3", ".", " ", "4", ".", " ", "5", ".", " ", "6", ".", " ", "7",
      ".", " ", "8", ".", " ", "9", ".", " ", "1", "0", ".", " ", "e", "n",
      "d">>
PageGeneral ==
    <<"C", "h", "a", "p", "t", "e", "r", " ", "1", ".", "1", " ", "G", "e",
      "n", "e", "r", "a", "l">>
PageFiller ==
    <<"x">>
PageSigma ==
    <<"a", "SIGMA", "b">>
PageBlank ==
    <<" ">>
PageTitle ==
    <<"C", "h", "a", "p", "t", "e", "r", " ", "2", ".", "5", ".", "2">>
QuerySteps ==
    <<"m", "a", "j", "o", "r", " ", "s", "t", "e", "p", "s", " ", "i", "n",
      " ", "p", "r", "o", "d", "u", "c", "i", "n", "g", " ", "b", "u", "s",
      "i", "n", "e", "s", "s", " ", "r", "u", "l", "e", "s">>
QueryGeneral ==
    <<"G", "E", "N", "E", "R", "A", "L", " ", "d", "a", "t", "a">>
QueryNone ==
    <<"z", "e", "b", "r", "a">>
QuerySigma ==
    <<"a", "SIGMA">>

(***************************************************************************)
(* The legacy API (app.py): index_documents, keyword_search, quick_search   *)
(***************************************************************************)
MaxFiller == 20     \* filler pages that follow the first three pages of a PDF

CandidateK == 20    \* similarity_search_with_score(query_text, k=20)
MaxResults == 20    \* results[:20]

\* distances of the embedding model, in tenths
DistValues == {0, 5, 36}

PdfPool ==
    {<<PageGeneral, PageKnown, PageOther>>,
     <<PageSigma, PageKnown, PageFiller>> \o [i \in 1..MaxFiller |-> PageFiller],
     <<PageSigma, PageBlank, PageOther>>,
     <<PageOther, PageTitle>>,
     <<PageBlank>>}

QueryPool == {QuerySteps, QueryGeneral, QueryNone, QuerySigma}

\* text_splitter.split_text of a page text that is not longer than the chunk
\* size of 1500 characters: one chunk, the stripped text
SplitText(str) == <<Strip(str)>>

\* the chunks of pages i.. of a PDF, in page order (index_documents)
RECURSIVE PageChunks(_, _)
PageChunks(pages, i) ==
    IF i > Len(pages) THEN <<>>
    ELSE IF Strip(pages[i]) = <<>> THEN PageChunks(pages, i + 1)
    ELSE LET module_name == ModuleName(pages[i])
             splits == SplitText(pages[i])
         IN  [j \in 1..Len(splits) |->
                [text |-> splits[j],
                 metadata |-> [page |-> i, module |-> module_name,
                               important |-> Contains(module_name, S_252)]]]
             \o PageChunks(pages, i + 1)

\* index_documents; fails: "open" (reading the PDF raises), "embed"
\* (FAISS.from_texts raises) or "none"
IndexDocuments(store, meta, pages, fails) ==
    IF fails = "open"
    THEN [index_store |-> store, document_metadata |-> meta, raised |-> TRUE]
    ELSE LET included == {i \in 1..Len(pages) : Strip(pages[i]) # <<>>}
             newMeta == [page_content |-> [i \in included |-> pages[i]],
                         module_info |-> [i \in included |-> ModuleName(pages[i])]]
             chunks == PageChunks(pages, 1)
         IN  IF included = {}
             THEN [index_store |-> store, document_metadata |-> newMeta,
                   raised |-> FALSE]
             ELSE IF fails = "embed"
             THEN [index_store |-> store, document_metadata |-> newMeta,
                   raised |-> TRUE]
             ELSE [index_store |-> [isNone |-> FALSE, docs |-> chunks],
                   document_metadata |-> newMeta, raised |-> FALSE]

\* scores are fractions
Score(num, den) == [num |-> num, den |-> den]
ScoreGreater(a, b) == a.num * b.den > b.num * a.den

\* x put into the sorted sequence s behind every element whose score is not
\* lower
RECURSIVE InsertByScore(_, _)
InsertByScore(s, x) ==
    IF s = <<>> \/ ~ScoreGreater(x.score, s[Len(s)].score) THEN Append(s, x)
    ELSE Append(InsertByScore(SubSeq(s, 1, Len(s) - 1), x), s[Len(s)])

\* results.sort(key=score, reverse=True): stable
RECURSIVE SortByScoreDescending(_)
SortByScoreDescending(s) ==
    IF s = <<>> THEN <<>>
    ELSE InsertByScore(SortByScoreDescending(SubSeq(s, 1, Len(s) - 1)), s[Len(s)])

\* the keywords of a query that occur in a page, with repetitions
RECURSIVE MatchCount(_, _)
MatchCount(keywords, page_content) ==
    IF keywords = <<>> THEN 0
    ELSE (IF Contains(page_content, Head(keywords)) THEN 1 ELSE 0)
         + MatchCount(Tail(keywords), page_content)

\* keyword_search over pages p.., in ascending page order
RECURSIVE KeywordScan(_, _, _, _)
KeywordScan(meta, keywords, p, last) ==
    IF p > last THEN <<>>
    ELSE IF p \notin DOMAIN meta.page_content THEN KeywordScan(meta, keywords, p + 1, last)
    ELSE LET page_content == Lower(meta.page_content[p])
             matches == MatchCount(keywords, page_content)
         IN  (IF matches > 0
              THEN <<[text |-> <<>>, has_text |-> FALSE,
                      metadata |-> [page |-> p, module |-> meta.module_info[p],
                                    important |-> FALSE],
                      score |-> Score(matches, Len(keywords)),
                      source |-> "keyword"]>>
              ELSE <<>>)
             \o KeywordScan(meta, keywords, p + 1, last)

MaxOf(S) == IF S = {} THEN 0 ELSE CHOOSE m \in S : \A x \in S : x <= m

\* keyword_search(query_text)
KeywordSearch(meta, query_text) ==
    KeywordScan(meta, Split(Strip(Lower(query_text))), 1,
                MaxOf(DOMAIN meta.page_content))

\* is_business_rules_steps_query
IsBusinessRulesStepsQuery(query_text) ==
    LET q == Lower(query_text)
    IN  \/ Contains(q, S_major_steps) /\ Contains(q, S_business_rules)
        \/ Contains(q, S_step) /\ Contains(q, S_produc) /\ Contains(q, S_business_rule)
        \/ Contains(q, S_13_step) /\ Contains(q, S_business_rule)
        \/ Contains(q, S_thirteen_step) /\ Contains(q, S_business_rule)
        \/ Contains(q, S_steps_in) /\ Contains(q, S_business_rule)

\* the score of one vector candidate after the boosts, in tenths
BoostedScore(doc, is_special) ==
    LET chapter == doc.metadata.module
        page == doc.metadata.page
        text == Lower(doc.text)
    IN  doc.dist
        + (IF ~is_special THEN 0
           ELSE (IF chapter = S_252 THEN 40
                 ELSE IF StartsWith(chapter, S_25) THEN 20 ELSE 0)
              + (IF page = 2 THEN 30 ELSE IF page = 3 THEN 20 ELSE 0)
              + (IF Contains(text, S_13_steps) \/ Contains(text, S_thirteen_steps)
                 THEN 50 ELSE 0)
              + (IF HasNumbered(text) /\ Contains(text, S_business_rule) THEN 30 ELSE 0)
              + (IF CountNumbered(text) >= 10 THEN 40 ELSE 0))

\* index_store.similarity_search_with_score(query, k): the k nearest chunks
\* with their L2 distances, nearest first
SimilaritySearchWithScore(store, dist, k) ==
    Slice(SortByDistance([i \in 1..Len(store.docs) |->
                            [text |-> store.docs[i].text,
                             metadata |-> store.docs[i].metadata,
                             dist |-> dist[store.docs[i].text]]]), 0, k)

\* the candidates whose boosted score is above 0.1, in candidate order
RECURSIVE Relevant(_, _)
Relevant(candidates, is_special) ==
    IF candidates = <<>> THEN <<>>
    ELSE LET doc == Head(candidates)
             base_score == BoostedScore(doc, is_special)
         IN  (IF base_score > 1
              THEN <<[text |-> doc.text, has_text |-> TRUE, metadata |-> doc.metadata,
                      score |-> Score(base_score, 10), source |-> "vector"]>>
              ELSE <<>>)
             \o Relevant(Tail(candidates), is_special)

S_Mock ==
    <<"S", "1", "0", "0", "0", "D", " ", "i", "s", " ", "a", " ", "s", "t",
      "a", "n", "d", "a", "r", "d", " ", "f", "o", "r", " ", "t", "e", "c",
      "h", "n", "i", "c", "a", "l", " ", "d", "o", "c", "u", "m", "e", "n",
      "t", "a", "t", "i", "o", "n", ".", " ", "S", "i", "n", "c", "e", " ",
      "n", "o", " ", "d", "o", "c", "u", "m", "e", "n", "t", "s", " ", "a",
      "r", "e", " ", "i", "n", "d", "e", "x", "e", "d", ",", " ", "t", "h",
      "i", "s", " ", "i", "s", " ", "a", " ", "m", "o", "c", "k", " ", "r",
      "e", "s", "p", "o", "n", "s", "e", ".">>

\* quick_search(query_text); vectorFails and lookupFails: the first and the
\* second similarity search raise
QuickSearch(store, meta, dist, query_text, vectorFails, lookupFails) ==
    IF store.isNone
    THEN <<[text |-> S_Mock, has_text |-> TRUE,
            metadata |-> [page |-> 1, module |-> S_Introduction, important |-> FALSE],
            score |-> Score(8, 10), source |-> "mock"]>>
    ELSE LET is_special == IsBusinessRulesStepsQuery(query_text)
             found == IF vectorFails THEN KeywordSearch(meta, query_text)
                      ELSE Relevant(SimilaritySearchWithScore(store, dist, CandidateK),
                                    is_special)
             results == Slice(SortByScoreDescending(found), 0, MaxResults)
             has_chapter_252 ==
                 \E i \in 1..Len(results) : results[i].metadata.module = S_252
             lookup == SimilaritySearchWithScore(store, dist, 1)
         IN  IF is_special /\ ~has_chapter_252 /\ ~lookupFails /\ lookup # <<>>
                /\ lookup[1].metadata.module = S_252 /\ lookup[1].metadata.page = 2
             THEN <<[text |-> lookup[1].text, has_text |-> TRUE,
                     metadata |-> lookup[1].metadata,
                     score |-> Score(100, 10), source |-> "lookup"]>> \o results
             ELSE results

InitLegacy ==
    /\ InitApiVars
    /\ InitPipeVars
    /\ IdleStore

\* POST /reindex-pdf: clears the index and runs index_documents, whose return
\* value is None, so the handler answers 500 in every case
ReindexPdf ==
    \E pages \in PdfPool, fails \in {"none", "missing", "open", "embed"} :
        /\ LET r == IndexDocuments([isNone |-> TRUE, docs |-> <<>>],
                                   document_metadata, pages, fails)
           IN  /\ index_store' = IF fails = "missing" THEN index_store
                                 ELSE r.index_store
               /\ document_metadata' = IF fails = "missing" THEN document_metadata
                                       ELSE r.document_metadata
        /\ pdf_resp' = 500
        /\ qs' = [called |-> FALSE, query |-> <<>>, vector_raised |-> FALSE,
                  lookup_raised |-> FALSE, results |-> <<>>]
        /\ UNCHANGED storeVars
        /\ UNCHANGED <<apiVars, pipeVars>>

ChunkTexts(store) == {store.docs[i].text : i \in 1..Len(store.docs)}

\* a call of quick_search, under some embedding model
CallQuickSearch ==
    \E query_text \in QueryPool, vectorFails \in BOOLEAN, lookupFails \in BOOLEAN :
    \E dist \in [ChunkTexts(index_store) -> DistValues] :
        /\ qs' = [called |-> TRUE, query |-> query_text,
                  vector_raised |-> ~index_store.isNone /\ vectorFails,
                  lookup_raised |-> ~index_store.isNone /\ lookupFails,
                  results |-> QuickSearch(index_store, document_metadata, dist,
                                          query_text, vectorFails, lookupFails)]
        /\ pdf_resp' = 0
        /\ UNCHANGED <<index_store, document_metadata>>
        /\ UNCHANGED storeVars
        /\ UNCHANGED <<apiVars, pipeVars>>

NextLegacy ==
    \/ ReindexPdf
    \/ CallQuickSearch

\* the legacy API
SpecLegacy == InitLegacy /\ [][NextLegacy]_vars

(***************************************************************************)
(* POST /ai-query of the legacy API (app.py)                                *)
(***************************************************************************)
\* what the language models do during one request: ollama.chat, the OpenAI
\* fallback ("none": no key or no client), whether the first answer holds the
\* numbered list of the 13 steps, and the translation by ollama.chat
LlmPool ==
    [ollama : {"ok", "raises"}, fallback : {"none", "ok", "raises"},
     complete : BOOLEAN, translation : {"ok", "raises"}]

\* generate_ai_response with the exception of the second API call left
\* uncaught
GenerateAiResponseUncaught(user_query, translate, llm) ==
    LET answer == IF llm.ollama = "ok" THEN "ollama"
                  ELSE IF llm.fallback = "ok" THEN "openai"
                  ELSE "sorry_detail"
    IN  IF IsBusinessRulesStepsQuery(user_query) /\ ~llm.complete
        THEN [raised |-> TRUE, response |-> ""]
        ELSE [raised |-> FALSE,
              response |-> IF translate /\ llm.translation = "ok" THEN "translated"
                           ELSE answer]

\* generate_ai_response(relevant_chunks, user_query, translate, translate_to):
\* openai_client is None, so the second API call for an incomplete answer to a
\* business-rules-steps query raises, and the outer handler returns the apology
GenerateAiResponse(user_query, translate, llm) ==
    LET answer == IF llm.ollama = "ok" THEN "ollama"
                  ELSE IF llm.fallback = "ok" THEN "openai"
                  ELSE "sorry_detail"
    IN  IF IsBusinessRulesStepsQuery(user_query) /\ ~llm.complete
        THEN [raised |-> FALSE, response |-> "sorry"]
        ELSE [raised |-> FALSE,
              response |-> IF translate /\ llm.translation = "ok" THEN "translated"
                           ELSE answer]

\* a response of POST /ai-query of the legacy API
AiResponse(status_code, answer, sources) ==
    [has_answer |-> status_code = 200, has_sources |-> status_code = 200,
     answer |-> answer, sources |-> sources]
    @@ Response("ai-query", status_code)

\* ai_query_documents behind quick_search; ai_response is what
\* generate_ai_response gave
AiQueryAnswer(search_results, request, ai_response) ==
    IF request.search_only THEN AiResponse(200, "search_only", 0)
    ELSE IF request.skip_search
    THEN AiResponse(200, "skipped", Len(Slice(search_results, 0, 10)))
    ELSE IF ai_response.raised
    THEN [AiResponse(500, "", 0) EXCEPT !.raised = TRUE]
    ELSE AiResponse(200, ai_response.response, Len(Slice(search_results, 0, 10)))

\* the requests of /ai-query that differ in the handler's branches
AiRequests == [search_only : BOOLEAN, skip_search : BOOLEAN, translate : BOOLEAN]

\* POST /ai-query, under an embedding model that puts every chunk at the same
\* distance of the query
AiQueryDocuments ==
    \E query_text \in QueryPool, vectorFails \in BOOLEAN, lookupFails \in BOOLEAN :
    \E distance \in {0, 36} :
    LET dist == [t \in ChunkTexts(index_store) |-> distance]
        keyword_results == QuickSearch(index_store, document_metadata, dist,
                                       query_text, vectorFails, lookupFails)
    IN  \E request \in AiRequests, llm \in LlmPool :
        /\ resp' = AiQueryAnswer(keyword_results, request,
                                 GenerateAiResponse(query_text, request.translate, llm))
        /\ UNCHANGED <<indexer, is_indexed>>
        /\ UNCHANGED legacyVars
        /\ UNCHANGED <<storeVars, pipeVars>>

\* the answers of handle_query: the first ten results that have a text (a
\* result of keyword_search has none, and the conversion that raises is skipped)
RECURSIVE Answers(_)
Answers(search_results) ==
    IF search_results = <<>> THEN <<>>
    ELSE (IF Head(search_results).has_text THEN <<Head(search_results)>> ELSE <<>>)
         \o Answers(Tail(search_results))

\* handle_query of app.py behind quick_search: the counts and the answers of
\* the QueryResponse.  Neither the answer of generate_ai_response, which is not
\* part of the response, nor the summary changes them
QueryAnswer(search_results, page_size) ==
    [page_size |-> page_size,
     total_results |-> Len(search_results),
     total_pages |-> IF Len(search_results) \div page_size >= 1
                     THEN Len(search_results) \div page_size ELSE 1,
     answers |-> Answers(Slice(search_results, 0, 10))]
    @@ [Response("query", 200) EXCEPT
           !.answer_count = Len(Answers(Slice(search_results, 0, 10)))]

MaxPageSize == 2    \* largest page_size of a request

\* POST /query of the legacy API, under some embedding model
LegacyHandleQuery ==
    \E query_text \in {QuerySteps, QueryGeneral} :
    \E vectorFails \in BOOLEAN, lookupFails \in BOOLEAN :
    \E dist \in [ChunkTexts(index_store) -> {0, 36}] :
    LET search_results == QuickSearch(index_store, document_metadata, dist,
                                      query_text, vectorFails, lookupFails)
    IN  \E page_size \in 1..MaxPageSize :
        /\ qs' = [called |-> TRUE, query |-> query_text,
                  vector_raised |-> ~index_store.isNone /\ vectorFails,
                  lookup_raised |-> ~index_store.isNone /\ lookupFails,
                  results |-> search_results]
        /\ resp' = QueryAnswer(search_results, page_size)
        /\ pdf_resp' = 0
        /\ UNCHANGED <<indexer, is_indexed, index_store, document_metadata>>
        /\ UNCHANGED <<storeVars, pipeVars>>

NextQuery ==
    \/ ReindexPdf
    \/ LegacyHandleQuery

\* /query of the legacy API in every state of its index
SpecQuery == InitLegacy /\ [][NextQuery]_vars

NextAi ==
    \/ ReindexPdf
    \/ AiQueryDocuments

\* /ai-query of the legacy API in every state of its index
SpecAi == InitLegacy /\ [][NextAi]_vars

(***************************************************************************)
(* ContentAwareChunker (document_indexer.py) over langchain's               *)
(* RecursiveCharacterTextSplitter                                           *)
(***************************************************************************)
HeadingChunkSize == 500
HeadingChunkOverlap == 50
ListChunkSize == 800
ListChunkOverlap == 100

S_nl == <<"\n">>
S_nl2 == <<"\n", "\n">>
S_nl3 == <<"\n", "\n", "\n">>
S_dot_space == <<".", " ">>
S_space == <<" ">>
S_empty == <<>>

TextSeparators == <<S_nl3, S_nl2, S_nl, S_dot_space, S_space, S_empty>>
HeadingSeparators == <<S_nl, S_space>>
ListSeparators == <<S_nl2, S_nl>>

\* the first position from i on where sep occurs in text, or 0
NextMatch(text, sep, i) ==
    LET hits == {j \in i..(Len(text) - Len(sep) + 1) :
                    SubSeq(text, j, j + Len(sep) - 1) = sep}
    IN  IF hits = {} THEN 0 ELSE CHOOSE j \in hits : \A x \in hits : j <= x

\* the pieces of text that start with the occurrence of sep at m and with the
\* occurrences behind it
RECURSIVE PiecesFrom(_, _, _)
PiecesFrom(text, sep, m) ==
    LET n == NextMatch(text, sep, m + Len(sep))
    IN  IF n = 0 THEN <<SubSeq(text, m, Len(text))>>
        ELSE <<SubSeq(text, m, n - 1)>> \o PiecesFrom(text, sep, n)

\* _split_text_with_regex(text, separator, keep_separator=True): every
\* separator stays at the head of the piece behind it; empty pieces are dropped
SplitTextWithRegex(text, sep) ==
    IF sep = <<>> THEN [i \in 1..Len(text) |-> <<text[i]>>]
    ELSE LET first == NextMatch(text, sep, 1)
         IN  IF first = 0 THEN (IF text = <<>> THEN <<>> ELSE <<text>>)
             ELSE (IF first > 1 THEN <<SubSeq(text, 1, first - 1)>> ELSE <<>>)
                  \o PiecesFrom(text, sep, first)

RECURSIVE Concat(_)
Concat(docs) == IF docs = <<>> THEN <<>> ELSE Head(docs) \o Concat(Tail(docs))

\* _join_docs(docs, ""): the stripped concatenation, as a list of at most one
\* text (None when it is empty)
JoinDocs(docs) ==
    LET text == Strip(Concat(docs))
    IN  IF text = <<>> THEN <<>> ELSE <<text>>

\* the while loop of _merge_splits: pieces leave current_doc at the front
RECURSIVE DropFront(_, _, _, _, _)
DropFront(current_doc, total, len, size, overlap) ==
    IF total > overlap \/ (total + len > size /\ total > 0)
    THEN DropFront(Tail(current_doc), total - Len(Head(current_doc)), len,
                   size, overlap)
    ELSE [current_doc |-> current_doc, total |-> total]

\* _merge_splits(splits, "") from piece i on
RECURSIVE MergeFrom(_, _, _, _, _, _)
MergeFrom(splits, i, current_doc, total, size, overlap) ==
    IF i > Len(splits) THEN JoinDocs(current_doc)
    ELSE LET d == splits[i]
             full == total + Len(d) > size /\ current_doc # <<>>
             kept == IF full THEN DropFront(current_doc, total, Len(d), size, overlap)
                     ELSE [current_doc |-> current_doc, total |-> total]
         IN  (IF full THEN JoinDocs(current_doc) ELSE <<>>)
             \o MergeFrom(splits, i + 1, Append(kept.current_doc, d),
                          kept.total + Len(d), size, overlap)

MergeSplits(splits, size, overlap) == MergeFrom(splits, 1, <<>>, 0, size, overlap)

\* the index of the separator _split_text chooses: the first that is empty or
\* occurs in the text, or 0 when there is none
ChosenSeparator(text, separators) ==
    LET ok == {i \in 1..Len(separators) :
                  separators[i] = <<>> \/ NextMatch(text, separators[i], 1) > 0}
    IN  IF ok = {} THEN 0 ELSE CHOOSE i \in ok : \A x \in ok : i <= x

\* RecursiveCharacterTextSplitter._split_text(text, separators)
RECURSIVE RecursiveSplit(_, _, _, _)
RECURSIVE SplitPieces(_, _, _, _, _, _)
SplitPieces(splits, i, good_splits, new_separators, size, overlap) ==
    IF i > Len(splits) THEN MergeSplits(good_splits, size, overlap)
    ELSE IF Len(splits[i]) < size
    THEN SplitPieces(splits, i + 1, Append(good_splits, splits[i]),
                     new_separators, size, overlap)
    ELSE MergeSplits(good_splits, size, overlap)
         \o (IF new_separators = <<>> THEN <<splits[i]>>
             ELSE RecursiveSplit(splits[i], new_separators, size, overlap))
         \o SplitPieces(splits, i + 1, <<>>, new_separators, size, overlap)

RecursiveSplit(text, separators, size, overlap) ==
    LET c == ChosenSeparator(text, separators)
        separator == IF c = 0 THEN separators[Len(separators)] ELSE separators[c]
        new_separators == IF c = 0 \/ separators[c] = <<>> THEN <<>>
                          ELSE SubSeq(separators, c + 1, Len(separators))
    IN  SplitPieces(SplitTextWithRegex(text, separator), 1, <<>>, new_separators,
                    size, overlap)

\* splitter.split_text(block.text) with the splitter of the content type
SplitBlockText(cfg, content_type, text) ==
    IF content_type = "heading"
    THEN RecursiveSplit(text, HeadingSeparators, HeadingChunkSize, HeadingChunkOverlap)
    ELSE IF content_type = "list"
    THEN RecursiveSplit(text, ListSeparators, ListChunkSize, ListChunkOverlap)
    ELSE RecursiveSplit(text, TextSeparators, cfg.size, cfg.overlap)

\* {**base, **extra}: the keys of extra win
DictMerge(base, extra) == extra @@ base

\* chunk_content_block with only tables kept whole
ChunkContentBlockTablesOnly(cfg, b) ==
    LET base == [page |-> b.page, chapter |-> b.chapter,
                 content_type |-> b.content_type, importance |-> b.importance]
    IN  IF b.content_type \in {"table"}
        THEN <<[text |-> b.text,
                metadata |-> DictMerge(base @@ [chunked |-> FALSE], b.metadata)]>>
        ELSE LET text_chunks == SplitBlockText(cfg, b.content_type, b.text)
             IN  [i \in 1..Len(text_chunks) |->
                    [text |-> text_chunks[i],
                     metadata |-> DictMerge(base @@ [chunk_index |-> i - 1,
                                                     total_chunks |-> Len(text_chunks),
                                                     chunked |-> TRUE],
                                            b.metadata)]]

\* ContentAwareChunker.chunk_content_block(block)
ChunkContentBlock(cfg, b) ==
    LET base == [page |-> b.page, chapter |-> b.chapter,
                 content_type |-> b.content_type, importance |-> b.importance]
    IN  IF b.content_type \in {"table", "diagram"}
        THEN <<[text |-> b.text,
                metadata |-> DictMerge(base @@ [chunked |-> FALSE], b.metadata)]>>
        ELSE LET text_chunks == SplitBlockText(cfg, b.content_type, b.text)
             IN  [i \in 1..Len(text_chunks) |->
                    [text |-> text_chunks[i],
                     metadata |-> DictMerge(base @@ [chunk_index |-> i - 1,
                                                     total_chunks |-> Len(text_chunks),
                                                     chunked |-> TRUE],
                                            b.metadata)]]

MaxChunkSize == 4       \* CHUNK_SIZE is 3..MaxChunkSize
MaxChunkOverlap == 1    \* CHUNK_OVERLAP is 0..MaxChunkOverlap
MaxTextLen == 6         \* length of the enumerated block texts

ChunkConfigs ==
    {[size |-> sz, overlap |-> ov] : sz \in 3..MaxChunkSize, ov \in 0..MaxChunkOverlap}

Rep(c, n) == [i \in 1..n |-> c]

\* the texts of 1..n characters over "a", " " and "\n" that strip() leaves
\* alone and that are not empty
StrippedTexts(n) ==
    UNION {{t \in [1..len -> {"a", " ", "\n"}] : t[1] = "a" /\ t[len] = "a"} :
              len \in 1..n}

\* a list item of n + 2 characters
ListLine(n) == <<"-", " ">> \o Rep("a", n)

RECURSIVE ListLines(_, _)
ListLines(k, n) ==
    IF k = 1 THEN ListLine(n) ELSE ListLine(n) \o S_nl \o ListLines(k - 1, n)

S_CHAPTER_2 == <<"C", "H", "A", "P", "T", "E", "R", " ", "2">>
S_a_dot_a == <<"a", ".", " ", "a", "a", ".", " ", "a">>
S_cells == <<"a", " ", "|", " ", "b", "\n", "c", " ", "|", " ", "d">>

TableMeta == [table_index |-> 0, rows |-> 2]
DiagramMeta == [image_index |-> 0, image_format |-> "png", image_size |-> 20000,
                ocr_applied |-> TRUE]

\* the blocks given to the chunker: text blocks are stripped and not empty,
\* headings are shorter than 100 characters, tables and diagrams carry the
\* metadata the extractor writes
BlockPool ==
    {ContentBlock(t, "text", 1, S_25, 1, <<>>) :
        t \in StrippedTexts(MaxTextLen) \cup {S_a_dot_a}}
    \cup {ContentBlock(t, "heading", 1, S_25, 4, <<>>) :
        t \in {S_CHAPTER_2, Rep("A", 99), Rep("A", 49) \o S_nl \o Rep("A", 49)}}
    \cup {ContentBlock(t, "list", 1, S_25, 1, <<>>) :
        t \in {ListLines(2, 1), ListLines(2, 450), ListLine(900), ListLines(14, 60)}}
    \cup {ContentBlock(t, "table", 1, S_25, 3, TableMeta) :
        t \in {S_cells, Rep("a", 1200)}}
    \cup {ContentBlock(t, "diagram", 1, S_25, 3, DiagramMeta) :
        t \in {S_cells, Rep("a", 1200)}}

InitChunker ==
    /\ InitApiVars
    /\ IdleStore
    /\ chunk_cfg \in ChunkConfigs
    /\ block \in BlockPool
    /\ block_chunks = NotChunked
    /\ cls = NoCall
    /\ run = NoRun

\* chunker.chunk_content_block(block)
Chunk ==
    /\ block_chunks' = [done |-> TRUE, out |-> ChunkContentBlock(chunk_cfg, block)]
    /\ UNCHANGED <<chunk_cfg, block, cls, run>>
    /\ UNCHANGED storeVars
    /\ UNCHANGED <<apiVars, legacyVars>>

NextChunker == Chunk

\* the chunker applied to one block
SpecChunker == InitChunker /\ [][NextChunker]_vars

(***************************************************************************)
(* The content classifier (pdf_processor.py)                               *)
(***************************************************************************)
\* the bullet U+2022 is written by its name
Bullet == "BULLET"

S_Unknown == <<"U", "n", "k", "n", "o", "w", "n">>

\* the end (exclusive) of \d+\.?\d*\.?\d*\.?\d* matched greedily from the
\* digit at position d
NumberEnd(text, d) ==
    LET Segment(e) == RunEnd(text, IF e <= Len(text) /\ text[e] = "." THEN e + 1 ELSE e,
                             Digits)
    IN  Segment(Segment(Segment(RunEnd(text, d, Digits))))

\* chapter_pattern = Chapter\s+(\d+\.?\d*\.?\d*\.?\d*) matched at position i:
\* the position of the number, 0 when there is no match at i
ChapterMatchAt(text, i) ==
    IF /\ i + 8 <= Len(text)
       /\ SubSeq(text, i, i + 6) = S_Chapter
       /\ IsSpace(text[i + 7])
    THEN LET d == RunEnd(text, i + 7, Spaces)
         IN  IF d <= Len(text) /\ IsDigit(text[d]) THEN d ELSE 0
    ELSE 0

\* chapter_pattern.search(text)
ChapterSearch(text) == \E i \in 1..Len(text) : ChapterMatchAt(text, i) # 0

\* group(1) of the first match of chapter_pattern
ChapterGroup(text) ==
    LET i == CHOOSE x \in 1..Len(text) :
                 ChapterMatchAt(text, x) # 0
                 /\ \A y \in 1..(x - 1) : ChapterMatchAt(text, y) = 0
        d == ChapterMatchAt(text, i)
    IN  SubSeq(text, d, NumberEnd(text, d) - 1)

\* section_pattern = (\d+\.?\d*\.?\d*\.?\d*)\s+[A-Z] matched at position i:
\* the end (exclusive) of the number, 0 when there is no match at i.  The
\* number is followed by whitespace, so it is the whole run of digits and
\* dots from i, which the pattern takes only with at most three dots.
SectionMatchAt(text, i) ==
    IF IsDigit(text[i])
    THEN LET e == RunEnd(text, i, Digits \cup {"."})
             s == IF e <= Len(text) THEN RunEnd(text, e, Spaces) ELSE e
         IN  IF /\ Cardinality({x \in i..(e - 1) : text[x] = "."}) <= 3
                /\ e < s
                /\ s <= Len(text)
                /\ text[s] \in Range(UpperCase)
             THEN e ELSE 0
    ELSE 0

\* section_pattern.search(text)
SectionSearch(text) == \E i \in 1..Len(text) : SectionMatchAt(text, i) # 0

\* group(1) of the first match of section_pattern
SectionGroup(text) ==
    LET i == CHOOSE x \in 1..Len(text) :
                 SectionMatchAt(text, x) # 0
                 /\ \A y \in 1..(x - 1) : SectionMatchAt(text, y) = 0
    IN  SubSeq(text, i, SectionMatchAt(text, i) - 1)

\* str.isupper(): there is a cased character and no cased character is
\* lowercase
IsUpper(text) ==
    /\ \E i \in 1..Len(text) : text[i] \in Cased
    /\ \A i \in 1..Len(text) :
           text[i] \notin Range(LowerCase) \cup {"sigma", "final_sigma"}

\* str.count(c)
Count(text, c) == Cardinality({i \in 1..Len(text) : text[i] = c})

\* a layout hint: None, or a dict
NoInfo == [given |-> FALSE]
Info(d) == [given |-> TRUE, dict |-> d]

\* block_info and block_info.get('font_size', 0) > 14
LargeFont(block_info) ==
    /\ block_info.given
    /\ DOMAIN block_info.dict # {}
    /\ (IF "font_size" \in DOMAIN block_info.dict THEN block_info.dict.font_size ELSE 0) > 14

\* re.match(r'^\s*[\d\-\BULLET\*]\s+', text)
ListMarkerMatch(text) ==
    LET m == RunEnd(text, 1, Spaces)
    IN  /\ m + 1 <= Len(text)
        /\ text[m] \in Digits \cup {"-", Bullet, "*"}
        /\ IsSpace(text[m + 1])

\* detect_content_type without its first test
DetectContentTypeNoShortTest(text, block_info) ==
    LET text_lower == Strip(Lower(text))
    IN  IF Len(text) < 100 /\ (\/ ChapterSearch(text)
                               \/ SectionSearch(text)
                               \/ IsUpper(text)
                               \/ LargeFont(block_info))
        THEN "heading"
        ELSE IF \/ ListMarkerMatch(text)
                \/ \E p \in {<<"-", " ">>, <<Bullet, " ">>, <<"*", " ">>} :
                       StartsWith(text_lower, p)
        THEN "list"
        ELSE IF Contains(text, <<"\t">>) \/ Count(text, "|") > 3
        THEN "table"
        ELSE "text"

\* detect_content_type(text, block_info)
DetectContentType(text, block_info) ==
    IF text = <<>> \/ Len(Strip(text)) < 3
    THEN "text"
    ELSE LET text_lower == Strip(Lower(text))
         IN  IF Len(text) < 100 /\ (\/ ChapterSearch(text)
                                    \/ SectionSearch(text)
                                    \/ IsUpper(text)
                                    \/ LargeFont(block_info))
             THEN "heading"
             ELSE IF \/ ListMarkerMatch(text)
                     \/ \E p \in {<<"-", " ">>, <<Bullet, " ">>, <<"*", " ">>} :
                            StartsWith(text_lower, p)
             THEN "list"
             ELSE IF Contains(text, <<"\t">>) \/ Count(text, "|") > 3
             THEN "table"
             ELSE "text"

S_data_module ==
    <<"d", "a", "t", "a", " ", "m", "o", "d", "u", "l", "e">>
S_publication_module ==
    <<"p", "u", "b", "l", "i", "c", "a", "t", "i", "o", "n", " ", "m", "o",
    "d", "u", "l", "e">>
S_applicability ==
    <<"a", "p", "p", "l", "i", "c", "a", "b", "i", "l", "i", "t", "y">>
S_brex ==
    <<"b", "r", "e", "x">>
S_csdb ==
    <<"c", "s", "d", "b">>
S_ietm ==
    <<"i", "e", "t", "m">>
S_common_source_database ==
    <<"c", "o", "m", "m", "o", "n", " ", "s", "o", "u", "r", "c", "e", " ",
    "d", "a", "t", "a", "b", "a", "s", "e">>

\* important_keywords
important_keywords ==
    <<S_business_rules, S_data_module, S_publication_module, S_applicability,
      S_brex, S_csdb, S_ietm, S_common_source_database>>

\* sum(1 for keyword in self.important_keywords if keyword in text_lower)
KeywordCount(text_lower) ==
    Cardinality({k \in 1..Len(important_keywords) :
                    Contains(text_lower, important_keywords[k])})

\* calculate_importance with the table rule left out
CalculateImportanceNoTableFloor(content_block) ==
    LET text_lower == Lower(content_block.text)
        heading == IF content_block.content_type = "heading" THEN 4 ELSE 1
        marked == IF ChapterSearch(content_block.text) THEN 5 ELSE heading
        keyword_count == KeywordCount(text_lower)
    IN  IF keyword_count > 0 THEN Min(5, marked + keyword_count) ELSE marked

\* calculate_importance with the keyword count assigned instead of added
CalculateImportanceCountAssigned(content_block) ==
    LET text_lower == Lower(content_block.text)
        heading == IF content_block.content_type = "heading" THEN 4 ELSE 1
        marked == IF ChapterSearch(content_block.text) THEN 5 ELSE heading
        keyword_count == KeywordCount(text_lower)
        counted == IF keyword_count > 0 THEN Min(5, keyword_count) ELSE marked
    IN  IF content_block.content_type = "table" /\ counted < 3 THEN 3 ELSE counted

\* calculate_importance without the cap
CalculateImportanceUncapped(content_block) ==
    LET text_lower == Lower(content_block.text)
        heading == IF content_block.content_type = "heading" THEN 4 ELSE 1
        marked == IF ChapterSearch(content_block.text) THEN 5 ELSE heading
        keyword_count == KeywordCount(text_lower)
        counted == IF keyword_count > 0 THEN marked + keyword_count ELSE marked
    IN  IF content_block.content_type = "table" /\ counted < 3 THEN 3 ELSE counted

\* calculate_importance(content_block)
CalculateImportance(content_block) ==
    LET text_lower == Lower(content_block.text)
        heading == IF content_block.content_type = "heading" THEN 4 ELSE 1
        marked == IF ChapterSearch(content_block.text) THEN 5 ELSE heading
        keyword_count == KeywordCount(text_lower)
        counted == IF keyword_count > 0 THEN Min(5, marked + keyword_count) ELSE marked
    IN  IF content_block.content_type = "table" /\ counted < 3 THEN 3 ELSE counted

\* extract_chapter_info(text, current_chapter)
ExtractChapterInfo(text, current_chapter) ==
    IF ChapterSearch(text) THEN ChapterGroup(text)
    ELSE IF SectionSearch(text) THEN SectionGroup(text)
    ELSE current_chapter

\* the block left with the importance it was created with
WithImportanceSkipped(content_block) == content_block

\* content_block.importance = self.calculate_importance(content_block)
WithImportance(content_block) ==
    [content_block EXCEPT !.importance = CalculateImportance(content_block)]

\* if chapter != "Unknown": current_chapter = chapter
NextChapter(chapter, current_chapter) ==
    IF chapter # S_Unknown THEN chapter ELSE current_chapter

\* the loop of extract_text_blocks_pymupdf from the i-th raw text of the
\* page, and its body behind the update of current_chapter
RECURSIVE TextBlocksFrom(_, _, _, _)
RECURSIVE TextBlockAndRest(_, _, _, _)
TextBlockAndRest(text_blocks, i, current_chapter, page_num) ==
    <<WithImportance(ContentBlock(Strip(text_blocks[i]),
                                  DetectContentType(text_blocks[i], NoInfo),
                                  page_num, current_chapter, 1, <<>>))>>
    \o TextBlocksFrom(text_blocks, i + 1, current_chapter, page_num)

TextBlocksFrom(text_blocks, i, current_chapter, page_num) ==
    IF i > Len(text_blocks) THEN <<>>
    ELSE IF text_blocks[i] = <<>> \/ Strip(text_blocks[i]) = <<>>
    THEN TextBlocksFrom(text_blocks, i + 1, current_chapter, page_num)
    ELSE TextBlockAndRest(text_blocks, i,
                          NextChapter(ExtractChapterInfo(text_blocks[i], current_chapter),
                                      current_chapter),
                          page_num)

\* extract_text_blocks_pymupdf(page, page_num), the page given by the texts
\* of its blocks
ExtractTextBlocks(text_blocks, page_num) ==
    TextBlocksFrom(text_blocks, 1, S_Unknown, page_num)

\* raw block texts
T_empty ==
    <<>>
T_blank ==
    <<" ", "\n">>
T_AB ==
    <<"A", "B">>
T_OK_nl ==
    <<"O", "K", "\n">>
T_Chapter_2 ==
    <<"C", "h", "a", "p", "t", "e", "r", " ", "2">>
T_scenario ==
    <<"C", "h", "a", "p", "t", "e", "r", " ", "2", ".", "5", ".", "2", "\n",
    "T", "h", "e", "r", "e", " ", "a", "r", "e", " ", "1", "3", " ", "s",
    "t", "e", "p", "s">>
T_chapter_2_lower ==
    <<"c", "h", "a", "p", "t", "e", "r", " ", "2">>
T_see_chapter ==
    <<"S", "e", "e", " ", "C", "h", "a", "p", "t", "e", "r", "\n", "1", "2",
    ".", "1", ".", " ", "n", "o", "w">>
T_Chapter_2_brex ==
    <<"C", "h", "a", "p", "t", "e", "r", " ", "2", " ", "b", "r", "e", "x">>
T_section ==
    <<"2", ".", "5", ".", "2", " ", "B", "u", "s", "i", "n", "e", "s", "s",
    " ", "r", "u", "l", "e", "s">>
T_1_Item ==
    <<"1", " ", "I", "t", "e", "m">>
T_1_item ==
    <<"1", " ", "i", "t", "e", "m">>
T_five_numbers ==
    <<"1", ".", "2", ".", "3", ".", "4", ".", "5", " ", "S", "c", "o", "p",
    "e">>
T_25_x ==
    <<"2", ".", "5", " ", "x">>
T_ABC ==
    <<"A", "B", "C">>
T_BUSINESS_RULES ==
    <<"B", "U", "S", "I", "N", "E", "S", "S", " ", "R", "U", "L", "E", "S">>
T_Abc ==
    <<"A", "b", "c">>
T_123 ==
    <<"1", "2", "3">>
T_dash_item ==
    <<"-", " ", "i", "t", "e", "m">>
T_star_item ==
    <<"*", " ", "i", "t", "e", "m">>
T_bullet_item ==
    <<Bullet, " ", "i", "t", "e", "m">>
T_indented_item ==
    <<" ", " ", "-", " ", "i", "t", "e", "m">>
T_dashitem ==
    <<"-", "i", "t", "e", "m">>
T_12_x ==
    <<"1", "2", " ", "x">>
T_dash_A ==
    <<"-", " ", "A">>
T_dash_tab_item ==
    <<"-", "\t", "i", "t", "e", "m">>
T_a_tab_b ==
    <<"a", "\t", "b">>
T_4_pipes ==
    <<"a", "|", "b", "|", "c", "|", "d", "|", "e">>
T_3_pipes ==
    <<"a", "|", "b", "|", "c", "|", "d">>
T_4_PIPES ==
    <<"A", "|", "B", "|", "C", "|", "D", "|", "E">>
T_dash_4_pipes ==
    <<"-", " ", "a", "|", "b", "|", "c", "|", "d", "|", "e">>
T_brex ==
    <<"b", "r", "e", "x">>
T_four_keywords ==
    <<"t", "h", "e", " ", "b", "r", "e", "x", " ", "c", "s", "d", "b", " ",
    "i", "e", "t", "m", " ", "a", "p", "p", "l", "i", "c", "a", "b", "i",
    "l", "i", "t", "y">>
T_Data_Module ==
    <<"D", "a", "t", "a", " ", "M", "o", "d", "u", "l", "e">>
T_Introduction_nl ==
    <<"I", "n", "t", "r", "o", "d", "u", "c", "t", "i", "o", "n", "\n">>
T_tab_brex ==
    <<"a", "\t", "b", "r", "e", "x">>
T_csdb_long ==
    <<"c", "o", "m", "m", "o", "n", " ", "s", "o", "u", "r", "c", "e", " ",
    "d", "a", "t", "a", "b", "a", "s", "e">>

MaxShortLen == 3    \* length of the enumerated short texts
MaxAdded == 2       \* keywords appended to one text

\* the enumerated short texts
ShortTexts(n) == UNION {[1..len -> {"A", "a", "1", " "}] : len \in 1..n}

\* the raw texts given to the classifier
TextPool ==
    ShortTexts(MaxShortLen)
    \cup {T_empty, T_blank, T_AB, T_OK_nl, T_Chapter_2, T_scenario, T_chapter_2_lower,
          T_see_chapter, T_Chapter_2_brex, T_section, T_1_Item, T_1_item,
          T_five_numbers, T_25_x, T_ABC, T_BUSINESS_RULES, T_Abc, T_123, T_dash_item,
          T_star_item, T_bullet_item, T_indented_item, T_dashitem, T_12_x, T_dash_A,
          T_dash_tab_item, T_a_tab_b, T_4_pipes, T_3_pipes, T_4_PIPES, T_dash_4_pipes,
          T_brex, T_four_keywords, T_Data_Module, T_Introduction_nl, T_tab_brex,
          T_csdb_long}
    \cup {Rep("A", 99), Rep("A", 100), T_Chapter_2 \o Rep("x", 100)}

\* the pages given to the extractor: the raw texts of their blocks
PagePool ==
    {<<t>> : t \in TextPool}
    \cup {<<T_scenario, T_dash_item>>, <<T_brex, T_section>>,
          <<T_blank, T_Chapter_2, T_BUSINESS_RULES>>}

\* the layout hints
InfoPool ==
    {NoInfo, Info(<<>>), Info([x0 |-> 0]), Info([font_size |-> 14]),
     Info([font_size |-> 15])}

ContentTypes == {"text", "heading", "list", "table", "diagram"}

InitClassifier ==
    /\ InitApiVars
    /\ IdleStore
    /\ chunk_cfg = [size |-> 1000, overlap |-> 200]
    /\ block = NoBlock
    /\ block_chunks = NotChunked
    /\ run = NoRun
    /\ \E p \in PagePool, h \in InfoPool :
           cls = [op |-> "input", text_blocks |-> p, block_info |-> h]

\* detect_content_type(text, block_info)
CallDetectContentType ==
    /\ cls.op = "input"
    /\ \E i \in 1..Len(cls.text_blocks) :
           cls' = [op |-> "detect_content_type",
                   text |-> cls.text_blocks[i],
                   block_info |-> cls.block_info,
                   content_type |-> DetectContentType(cls.text_blocks[i], cls.block_info)]
    /\ UNCHANGED <<chunk_cfg, block, block_chunks, run>>
    /\ UNCHANGED storeVars
    /\ UNCHANGED <<apiVars, legacyVars>>

\* calculate_importance(content_block), for a block of any type
CallCalculateImportance ==
    /\ cls.op = "input"
    /\ \E i \in 1..Len(cls.text_blocks), ty \in ContentTypes :
           LET content_block == ContentBlock(cls.text_blocks[i], ty, 1, S_Unknown, 1, <<>>)
           IN  cls' = [op |-> "calculate_importance",
                       content_block |-> content_block,
                       importance |-> CalculateImportance(content_block),
                       added |-> 0,
                       last |-> 0]
    /\ UNCHANGED <<chunk_cfg, block, block_chunks, run>>
    /\ UNCHANGED storeVars
    /\ UNCHANGED <<apiVars, legacyVars>>

\* calculate_importance(content_block) again, on the text with one more of
\* the configured keywords appended (in the order of the list)
AddKeyword ==
    /\ cls.op = "calculate_importance"
    /\ cls.added < MaxAdded
    /\ \E k \in (cls.last + 1)..Len(important_keywords) :
           /\ ~Contains(Lower(cls.content_block.text), important_keywords[k])
           /\ LET content_block ==
                      [cls.content_block EXCEPT
                          !.text = @ \o <<" ">> \o important_keywords[k]]
              IN  cls' = [op |-> "calculate_importance",
                          content_block |-> content_block,
                          importance |-> CalculateImportance(content_block),
                          added |-> cls.added + 1,
                          last |-> k]
    /\ UNCHANGED <<chunk_cfg, block, block_chunks, run>>
    /\ UNCHANGED storeVars
    /\ UNCHANGED <<apiVars, legacyVars>>

\* extract_text_blocks_pymupdf(page, page_num)
CallExtractTextBlocks ==
    /\ cls.op = "input"
    /\ \E page_num \in 1..2 :
           cls' = [op |-> "extract_text_blocks",
                   text_blocks |-> cls.text_blocks,
                   blocks |-> ExtractTextBlocks(cls.text_blocks, page_num)]
    /\ UNCHANGED <<chunk_cfg, block, block_chunks, run>>
    /\ UNCHANGED storeVars
    /\ UNCHANGED <<apiVars, legacyVars>>

NextClassifier ==
    \/ CallDetectContentType
    \/ CallCalculateImportance
    \/ AddKeyword
    \/ CallExtractTextBlocks

\* the classifier applied to one page of raw texts
SpecClassifier == InitClassifier /\ [][NextClassifier]_vars

(***************************************************************************)
(* The PDF processor: process_page and process_pdf (pdf_processor.py)      *)
(***************************************************************************)
MaxPdfPages == 2    \* pages of the PDF

\* the step of process_page that raises on a page: fitz.open, doc[page_num - 1],
\* page.get_text, page.get_images, pdfplumber
Faults == {"none", "open", "page", "text", "images", "tables"}

\* the raw texts of the blocks of page p
PageTexts(p) ==
    IF p = 1 THEN <<T_dash_item, T_scenario>>
    ELSE IF p % 2 = 0 THEN <<T_brex, T_blank>>
    ELSE <<T_section>>

\* the first chapter of the blocks that is known
RECURSIVE FirstChapter(_, _)
FirstChapter(blocks, i) ==
    IF i > Len(blocks) THEN S_Unknown
    ELSE IF blocks[i].chapter # S_Unknown THEN blocks[i].chapter
    ELSE FirstChapter(blocks, i + 1)

\* extract_images_with_ocr(page, page_num, current_chapter): the page has one
\* image, and OCR reads S_cells from it
ExtractImagesWithOcr(page_num, current_chapter, fault, ocr) ==
    IF ~ocr THEN <<>>
    ELSE IF fault = "images" THEN <<>>
    ELSE <<ContentBlock(S_cells, "diagram", page_num, current_chapter, 3, DiagramMeta)>>

\* extract_tables_pdfplumber(pdf_path, page_num): the page has one table
ExtractTablesPdfplumber(page_num, fault, PDFPLUMBER_AVAILABLE) ==
    IF ~PDFPLUMBER_AVAILABLE THEN <<>>
    ELSE IF fault = "tables" THEN <<>>
    ELSE <<ContentBlock(S_cells, "table", page_num, S_Unknown, 3, TableMeta)>>

\* if block.chapter == "Unknown": block.chapter = current_chapter
UpdateUnknownChapters(blocks, current_chapter) ==
    [i \in 1..Len(blocks) |->
        IF blocks[i].chapter = S_Unknown
        THEN [blocks[i] EXCEPT !.chapter = current_chapter]
        ELSE blocks[i]]

\* block.chapter = current_chapter
UpdateChapters(blocks, current_chapter) ==
    [i \in 1..Len(blocks) |-> [blocks[i] EXCEPT !.chapter = current_chapter]]

\* process_page behind the choice of current_chapter
PageBlocks(text_blocks, current_chapter, page_num, fault, enable_ocr, ocr_available, PDFPLUMBER_AVAILABLE) ==
    UpdateUnknownChapters(text_blocks, current_chapter)
    \o (IF enable_ocr
        THEN ExtractImagesWithOcr(page_num, current_chapter, fault,
                                  enable_ocr /\ ocr_available)
        ELSE <<>>)
    \o UpdateChapters(ExtractTablesPdfplumber(page_num, fault, PDFPLUMBER_AVAILABLE),
                      current_chapter)

\* process_page behind extract_text_blocks_pymupdf
PageBlocksAfterText(text_blocks, page_num, fault, enable_ocr, ocr_available, PDFPLUMBER_AVAILABLE) ==
    PageBlocks(text_blocks, FirstChapter(text_blocks, 1), page_num, fault, enable_ocr,
               ocr_available, PDFPLUMBER_AVAILABLE)

\* process_page(page_num); fault is the step that raises on this page
ProcessPage(page_num, fault, enable_ocr, ocr_available, PDFPLUMBER_AVAILABLE) ==
    IF fault \in {"open", "page", "text"} \/ page_num > MaxPdfPages THEN <<>>
    ELSE PageBlocksAfterText(ExtractTextBlocks(PageTexts(page_num), page_num), page_num,
                             fault, enable_ocr, ocr_available, PDFPLUMBER_AVAILABLE)

\* the page loop of process_pdf from page_num; progress_callback is "none",
\* "returns" or "raises"
RECURSIVE ProcessPages(_, _, _, _, _, _, _)
ProcessPages(page_num, end_page, faults, enable_ocr, ocr_available, PDFPLUMBER_AVAILABLE, progress_callback) ==
    IF page_num > end_page THEN <<>>
    ELSE ProcessPage(page_num, faults[page_num], enable_ocr, ocr_available,
                     PDFPLUMBER_AVAILABLE)
         \o (IF progress_callback = "raises" THEN <<>>
             ELSE ProcessPages(page_num + 1, end_page, faults, enable_ocr,
                               ocr_available, PDFPLUMBER_AVAILABLE, progress_callback))

\* process_pdf(start_page, end_page, progress_callback); openFails: fitz.open
\* raises in process_pdf
ProcessPdf(start_page, end_page, progress_callback, openFails, faults, enable_ocr, ocr_available, PDFPLUMBER_AVAILABLE) ==
    IF openFails THEN <<>>
    ELSE ProcessPages(start_page, Min(end_page, MaxPdfPages), faults, enable_ocr,
                      ocr_available, PDFPLUMBER_AVAILABLE, progress_callback)

\* a processor on a PDF whose pages fail as faults says
InitPdf ==
    /\ InitApiVars
    /\ IdleStore
    /\ chunk_cfg = [size |-> 1000, overlap |-> 200]
    /\ block = NoBlock
    /\ block_chunks = NotChunked
    /\ cls = NoCall
    /\ \E faults \in [1..MaxPdfPages -> Faults] :
       \E enable_ocr \in BOOLEAN, ocr_available \in BOOLEAN, available \in BOOLEAN :
           run = [called |-> FALSE, faults |-> faults, enable_ocr |-> enable_ocr,
                  ocr_available |-> ocr_available, PDFPLUMBER_AVAILABLE |-> available]

\* processor.process_pdf(start_page, end_page, progress_callback)
CallProcessPdf ==
    /\ ~run.called
    /\ \E start_page \in 1..MaxPdfPages, end_page \in 1..(MaxPdfPages + 1) :
       \E progress_callback \in {"none", "returns", "raises"}, openFails \in BOOLEAN :
           run' = [called |-> TRUE, faults |-> run.faults, enable_ocr |-> run.enable_ocr,
                   ocr_available |-> run.ocr_available,
                   PDFPLUMBER_AVAILABLE |-> run.PDFPLUMBER_AVAILABLE,
                   start_page |-> start_page, end_page |-> end_page,
                   progress_callback |-> progress_callback, openFails |-> openFails,
                   blocks |-> ProcessPdf(start_page, end_page, progress_callback,
                                         openFails, run.faults, run.enable_ocr,
                                         run.ocr_available, run.PDFPLUMBER_AVAILABLE)]
    /\ UNCHANGED <<chunk_cfg, block, block_chunks, cls>>
    /\ UNCHANGED storeVars
    /\ UNCHANGED <<apiVars, legacyVars>>

NextPdf == CallProcessPdf

\* the PDF processor on one PDF
SpecPdf == InitPdf /\ [][NextPdf]_vars

(***************************************************************************)
(* Properties of the vector stores                                         *)
(***************************************************************************)
SearchDone == ret.op = "search" /\ ret.status = "ok"

\* C1: on both backends a search returns at most k results, and their scores
\* do not increase from the first result to the last.
C1_SearchTopKDescending ==
    SearchDone =>
        /\ Len(ret.out) <= ret.k
        /\ \A i, j \in 1..Len(ret.out) : i < j => ret.out[i].score >= ret.out[j].score

\* C2: on both backends every result of a search with a metadata filter
\* satisfies the filter.
C2_ResultsSatisfyFilter ==
    SearchDone => \A i \in 1..Len(ret.out) : Matches(ret.out[i].meta, ret.filter)

\* C3: the ids generated for a call without ids differ from every id stored
\* before the call and from each other.
C3_GeneratedIdsUnique ==
    [][(ret'.op = "add" /\ ret'.generated) =>
          /\ \A i \in 1..Len(ret'.ids) : ret'.ids[i] \notin IdsOf(Stored)
          /\ ~HasDuplicates(ret'.ids)]_vars

\* C4: an add_documents call in which the embedding of some text cannot be
\* generated fails, and the collection holds what it held before the call.
C4_EmbeddingFailureInsertsNothing ==
    [][(ret'.op = "add" /\ ret'.failAt # 0) =>
          ret'.status = "raised" /\ Stored' = Stored]_vars

\* a call of several batches whose embedding generation failed
C4_Witness ==
    /\ ret.op = "add" /\ ret.cause = "embedding" /\ ret.failAt > batch_size
    /\ ret.status = "raised"

\* C5: add_documents with texts and metadatas of different lengths fails and
\* writes nothing (stated for the calls that have at least one text).
C5_LengthMismatchWritesNothing ==
    [][(ret'.op = "add" /\ ret'.nTexts > 0 /\ ret'.nTexts # ret'.nMetas) =>
          ret'.status = "raised" /\ Stored' = Stored]_vars

\* C6: the operation that follows delete_collection on the same store object
\* succeeds on an empty collection.
C6_OperationAfterDeleteSucceeds ==
    [][(ret.op = "delete" /\ ret'.op \in {"add", "search", "stats"}
        /\ ret'.cause # "embedding") =>
          /\ ret'.op = "stats" => ret'.has_count /\ ret'.document_count = 0
          /\ ret'.op = "search" => ret'.status = "ok" /\ ret'.out = <<>>
          /\ (ret'.op = "add" /\ ~ret'.idsGiven /\ ret'.nTexts > 0
              /\ ret'.nTexts = ret'.nMetas) =>
                ret'.status = "ok" /\ Len(Stored') = ret'.nTexts]_vars

(***************************************************************************)
(* Properties of the enhanced API                                          *)
(***************************************************************************)
\* C8: when the vector store raises during a search of /query or /ai-query,
\* the handler does not pass the failure on to the client.
C8_SearchFailureNotPropagated ==
    (resp.endpoint \in {"query", "ai-query"} /\ resp.raised) => resp.status_code = 200

\* C28: index_status.is_indexed is true only while the collection the indexer
\* uses holds at least one document.
C28_IndexedMeansDocuments ==
    is_indexed
        => /\ backend = "chromadb" => Live(client, collection)
           /\ Len(Stored) >= 1

(***************************************************************************)
(* Properties of the legacy API                                            *)
(***************************************************************************)
\* a whitespace-separated keyword of the query occurs in some stored page text
LiteralKeyword ==
    \E kw \in Range(Split(qs.query)) :
        \E p \in DOMAIN document_metadata.page_content :
            Contains(document_metadata.page_content[p], kw)

HoldsChapter252 ==
    \E i \in 1..Len(index_store.docs) : index_store.docs[i].metadata.module = S_252

\* C7: when the vector search raised inside quick_search and a
\* whitespace-separated keyword of the query occurs literally in a stored
\* page text, the result is non-empty and holds keyword-scan results
C7_KeywordFallbackNonEmpty ==
    (qs.called /\ qs.vector_raised /\ LiteralKeyword) =>
        \E i \in 1..Len(qs.results) : qs.results[i].source = "keyword"

\* C9: a business-rules-steps query against an index that holds a chunk of
\* chapter 2.5.2 always has a chunk of chapter 2.5.2 in its results
C9_KnownChapterNeverOmitted ==
    (qs.called /\ ~index_store.isNone /\ ~qs.vector_raised /\ ~qs.lookup_raised
        /\ IsBusinessRulesStepsQuery(qs.query) /\ HoldsChapter252) =>
        \E i \in 1..Len(qs.results) : qs.results[i].metadata.module = S_252

\* C10: the query "major steps in producing business rules" against an index
\* whose candidates include the chunk of chapter 2.5.2 page 2 returns that
\* chunk first
C10_KnownPageRankedFirst ==
    (qs.called /\ ~index_store.isNone /\ ~qs.vector_raised /\ ~qs.lookup_raised
        /\ qs.query = QuerySteps /\ Len(index_store.docs) <= CandidateK
        /\ \E i \in 1..Len(index_store.docs) :
               /\ index_store.docs[i].metadata.module = S_252
               /\ index_store.docs[i].metadata.page = 2) =>
        /\ qs.results # <<>>
        /\ qs.results[1].metadata.module = S_252
        /\ qs.results[1].metadata.page = 2

\* C23: in every state of the index, POST /ai-query answers with status 200
\* and both an answer and a sources field, or with status 503; it gives no
\* other status.
C23_AiQueryStatus ==
    resp.endpoint = "ai-query"
        => \/ resp.status_code = 200 /\ resp.has_answer /\ resp.has_sources
           \/ resp.status_code = 503

\* an index is available and the second API call of generate_ai_response raised
C23_Witness ==
    /\ resp.endpoint = "ai-query"
    /\ ~index_store.isNone
    /\ resp.status_code = 200
    /\ resp.answer = "sorry"

\* C24: the result list of quick_search is sorted by non-increasing score and
\* has at most 20 entries, and POST /query returns at most page_size of them.
C24_SortedAndTruncated ==
    (qs.called /\ resp.endpoint = "query")
        => /\ \A i \in 1..(Len(qs.results) - 1) :
                  ~ScoreGreater(qs.results[i + 1].score, qs.results[i].score)
           /\ Len(qs.results) <= MaxResults
           /\ Len(resp.answers) <= resp.page_size

OverlapOf(cfg, content_type) ==
    IF content_type = "heading" THEN HeadingChunkOverlap
    ELSE IF content_type = "list" THEN ListChunkOverlap
    ELSE cfg.overlap

\* the configured chunk size of the splitter of a content type
SizeOf(cfg, content_type) ==
    IF content_type = "heading" THEN HeadingChunkSize
    ELSE IF content_type = "list" THEN ListChunkSize
    ELSE cfg.size

\* the lengths of at most ov characters that end prev and begin cur alike
SharedOverlaps(prev, cur, ov) ==
    {o \in 0..Min(ov, Min(Len(prev), Len(cur))) :
        SubSeq(prev, Len(prev) - o + 1, Len(prev)) = SubSeq(cur, 1, o)}

\* the texts made of the first k chunk texts in order, a shared overlap
\* removed between each two neighbours
RECURSIVE Reassemblies(_, _, _)
Reassemblies(out, k, ov) ==
    IF k = 0 THEN {<<>>}
    ELSE IF k = 1 THEN {out[1].text}
    ELSE {r \o SubSeq(out[k].text, o + 1, Len(out[k].text)) :
            r \in Reassemblies(out, k - 1, ov),
            o \in SharedOverlaps(out[k - 1].text, out[k].text, ov)}

\* C12: the chunk texts of a text, heading or list block, put together in
\* chunk_index order with the overlap between neighbours removed, give the
\* block text
C12_ChunksReassembleToBlockText ==
    (block_chunks.done /\ block.content_type \in {"text", "heading", "list"}) =>
        block.text \in Reassemblies(block_chunks.out, Len(block_chunks.out),
                                    OverlapOf(chunk_cfg, block.content_type))

\* C13: every chunk of a split block is at most as long as the chunk size of
\* the block's content type
C13_ChunkSizeRespected ==
    (block_chunks.done /\ block.content_type \in {"text", "heading", "list"}) =>
        \A i \in 1..Len(block_chunks.out) :
            Len(block_chunks.out[i].text) <= SizeOf(chunk_cfg, block.content_type)

(***************************************************************************)
(* Properties of the classifier                                            *)
(***************************************************************************)
\* the first character of text behind its leading whitespace is a digit, a
\* dash, a bullet or an asterisk, and whitespace follows it
StartsWithListMarker(text) ==
    \E m \in 1..(Len(text) - 1) :
        /\ \A j \in 1..(m - 1) : IsSpace(text[j])
        /\ text[m] \in Digits \cup {"-", Bullet, "*"}
        /\ IsSpace(text[m + 1])

\* the hint reports a font size above 14
ReportsLargeFont(block_info) ==
    /\ block_info.given
    /\ "font_size" \in DOMAIN block_info.dict
    /\ block_info.dict.font_size > 14

\* the type of the first matching rule: heading, list, table, text
FirstMatchingRule(text, block_info) ==
    IF Len(text) < 100 /\ (\/ ChapterSearch(text)
                           \/ SectionSearch(text)
                           \/ IsUpper(text)
                           \/ ReportsLargeFont(block_info))
    THEN "heading"
    ELSE IF StartsWithListMarker(text) THEN "list"
    ELSE IF "\t" \in Range(text) \/ Count(text, "|") > 3 THEN "table"
    ELSE "text"

\* C14 as stated: for every text and layout hint, detect_content_type returns
\* the type of the first matching rule, in the order heading, list, table,
\* text.
C14_FirstMatchingRule ==
    cls.op = "detect_content_type"
        => cls.content_type = FirstMatchingRule(cls.text, cls.block_info)

\* C14 as amended: a text with fewer than 3 characters between its leading
\* and trailing whitespace is text; for every other text and layout hint,
\* detect_content_type returns the type of the first matching rule, in the
\* order heading, list, table, text.
C14_FirstMatchingRuleOfLongerTexts ==
    cls.op = "detect_content_type"
        => cls.content_type = (IF Len(Strip(cls.text)) < 3 THEN "text"
                               ELSE FirstMatchingRule(cls.text, cls.block_info))

\* a text with a tab is a list because the list rule comes before the table
\* rule
C14_Witness ==
    /\ cls.op = "detect_content_type"
    /\ Len(Strip(cls.text)) >= 3
    /\ "\t" \in Range(cls.text)
    /\ cls.content_type = "list"

\* keyword occurs in text at position i when case is ignored
MatchesIgnoringCase(text, keyword, i) ==
    /\ i + Len(keyword) - 1 <= Len(text)
    /\ \A j \in 1..Len(keyword) : LowerChar(text[i + j - 1]) = LowerChar(keyword[j])

\* the configured keywords found in text as case-insensitive substrings
KeywordsFound(text) ==
    {keyword \in Range(important_keywords) :
        \E i \in 1..Len(text) : MatchesIgnoringCase(text, keyword, i)}

\* the importance rules applied in order: 1, 4 for a heading, 5 with a
\* chapter marker, 1 more for each keyword found up to 5, at least 3 for a
\* table
ImportanceRules(content_type, text) ==
    LET start == 1
        heading == IF content_type = "heading" THEN 4 ELSE start
        marked == IF ChapterSearch(text) THEN 5 ELSE heading
        counted == Min(5, marked + Cardinality(KeywordsFound(text)))
    IN  IF content_type = "table" /\ counted < 3 THEN 3 ELSE counted

\* C15: for every block, calculate_importance returns the value of the rules
\* applied in order: start at 1, 4 for a heading, 5 when a chapter marker
\* matches anywhere in the text, plus 1 for each distinct configured keyword
\* found as a case-insensitive substring, capped at 5, and at least 3 for a
\* table.
C15_ImportanceFollowsRules ==
    cls.op = "calculate_importance"
        => cls.importance = ImportanceRules(cls.content_block.content_type,
                                            cls.content_block.text)

\* a table with one keyword: the keyword gives 2 and the table rule raises
\* it to 3
C15_Witness ==
    /\ cls.op = "calculate_importance"
    /\ cls.content_block.content_type = "table"
    /\ Cardinality(KeywordsFound(cls.content_block.text)) = 1
    /\ ~ChapterSearch(cls.content_block.text)
    /\ cls.importance = 3

\* C16: for a fixed content type and a fixed chapter-marker presence, the
\* text with one more distinct configured keyword never gets a lower
\* importance from calculate_importance than the text without it.
C16_ImportanceMonotonicInKeywords ==
    [][(/\ cls.op = "calculate_importance"
        /\ cls'.op = "calculate_importance"
        /\ cls'.content_block.content_type = cls.content_block.content_type
        /\ ChapterSearch(cls'.content_block.text) = ChapterSearch(cls.content_block.text)
        /\ Cardinality(KeywordsFound(cls'.content_block.text))
               = Cardinality(KeywordsFound(cls.content_block.text)) + 1)
       => cls'.importance >= cls.importance]_vars

\* a heading that holds a keyword already and got one more: the cap keeps it
\* at 5
C16_Witness ==
    /\ cls.op = "calculate_importance"
    /\ cls.added >= 1
    /\ cls.content_block.content_type = "heading"
    /\ ~ChapterSearch(cls.content_block.text)
    /\ Cardinality(KeywordsFound(cls.content_block.text)) >= 2
    /\ cls.importance = 5

\* C17 as stated: every block the extractor emits has an importance from 1
\* to 5, and 5 occurs only on blocks whose text contains a chapter marker.
C17_FiveOnlyOnChapterMarkers ==
    cls.op = "extract_text_blocks"
        => \A i \in 1..Len(cls.blocks) :
               /\ cls.blocks[i].importance \in 1..5
               /\ cls.blocks[i].importance = 5 => ChapterSearch(cls.blocks[i].text)

\* C17 as amended: every block the extractor emits has an importance from 1
\* to 5, and 5 occurs only on blocks whose text contains a chapter marker or
\* a configured keyword.
C17_FiveOnlyOnMarkersOrKeywords ==
    cls.op = "extract_text_blocks"
        => \A i \in 1..Len(cls.blocks) :
               /\ cls.blocks[i].importance \in 1..5
               /\ cls.blocks[i].importance = 5
                      => \/ ChapterSearch(cls.blocks[i].text)
                         \/ KeywordsFound(cls.blocks[i].text) # {}

\* the extractor emitted a block of importance 5 with a chapter marker and
\* one of importance 5 with a keyword and no chapter marker
C17_Witness ==
    /\ cls.op = "extract_text_blocks"
    /\ \E i, j \in 1..Len(cls.blocks) :
           /\ cls.blocks[i].importance = 5
           /\ ChapterSearch(cls.blocks[i].text)
           /\ cls.blocks[j].importance = 5
           /\ ~ChapterSearch(cls.blocks[j].text)
           /\ KeywordsFound(cls.blocks[j].text) # {}

(***************************************************************************)
(* Properties of the indexing runs                                         *)
(***************************************************************************)
\* the documents the store holds
StoredDocs(be, cl, idx) == IF be = "chromadb" THEN cl.docs ELSE idx.docs

\* s is t with some elements left out
RECURSIVE IsSubsequence(_, _)
IsSubsequence(s, t) ==
    IF s = <<>> THEN TRUE
    ELSE IF t = <<>> THEN FALSE
    ELSE IF Head(s) = Head(t) THEN IsSubsequence(Tail(s), Tail(t))
    ELSE IsSubsequence(s, Tail(t))

\* a /reindex of the range of the request before it, without force_reindex,
\* both answered with 200
SecondRunOfRange ==
    /\ run.called
    /\ run.status_code = 200
    /\ run'.runs = run.runs + 1
    /\ run'.status_code = 200
    /\ ~run'.force_reindex
    /\ run'.start_page = run.start_page
    /\ run'.end_page = run.end_page

\* C18: indexing the same page range again without force_reindex either
\* changes nothing or leaves a store that holds every document it held, and
\* for a fixed query the documents a search returned before the second run
\* are returned after it, in the same relative order and with the same scores.
C18_SecondRunKeepsRanking ==
    [][SecondRunOfRange =>
          \/ client' = client /\ index' = index /\ collection' = collection
          \/ LET before == StoredDocs(backend, client, index)
                 after == StoredDocs(backend', client', index')
             IN  /\ Len(before) <= Len(after)
                 /\ SubSeq(after, 1, Len(before)) = before
                 /\ \A query \in Queries, k \in 1..MaxK :
                        LET b == StoreSearch(backend, client, collection, index,
                                             query, k, NoFilter, FALSE, FALSE)
                            a == StoreSearch(backend', client', collection', index',
                                             query, k, NoFilter, FALSE, FALSE)
                        IN  b.status = "ok"
                                => a.status = "ok" /\ IsSubsequence(b.out, a.out)]_vars

\* the chunks outside the batch of process_and_index that holds chunk failAt,
\* from the i-th
RECURSIVE OutsideFailedBatchFrom(_, _, _, _)
OutsideFailedBatchFrom(chunks, i, failAt, bs) ==
    IF i > Len(chunks) THEN <<>>
    ELSE (IF (i - 1) \div bs = (failAt - 1) \div bs THEN <<>> ELSE <<chunks[i]>>)
         \o OutsideFailedBatchFrom(chunks, i + 1, failAt, bs)

OutsideFailedBatch(chunks, failAt, bs) == OutsideFailedBatchFrom(chunks, 1, failAt, bs)

\* C19: when embedding or storage fails for one batch of process_and_index,
\* only that batch is aborted: the run completes and every other batch is in
\* the store.
C19_OnlyFailedBatchAborted ==
    (run.called /\ ~run.pdfFails /\ run.failAt # 0)
        => /\ run.status = "ok"
           /\ LET docs == StoredDocs(backend, client, index)
              IN  [i \in 1..Len(docs) |-> [text |-> docs[i].text, metadata |-> docs[i].meta]]
                      = OutsideFailedBatch(run.chunks, run.failAt, batch_size)

(***************************************************************************)
(* Properties of the PDF processor                                         *)
(***************************************************************************)
\* a step of process_page raises on page p
PageRaises(p) ==
    \/ run.faults[p] \in {"open", "page", "text"}
    \/ run.faults[p] = "images" /\ run.enable_ocr /\ run.ocr_available
    \/ run.faults[p] = "tables" /\ run.PDFPLUMBER_AVAILABLE

\* the blocks of page p among blocks
RECURSIVE BlocksOfPage(_, _)
BlocksOfPage(blocks, p) ==
    IF blocks = <<>> THEN <<>>
    ELSE (IF Head(blocks).page = p THEN <<Head(blocks)>> ELSE <<>>)
         \o BlocksOfPage(Tail(blocks), p)

\* C20: if processing a page raises at any step, process_pdf does not abort:
\* the failed page contributes no blocks to the result, and every later page
\* of the range is processed and its blocks are returned.
C20_FailedPageSkipped ==
    (run.called /\ ~run.openFails /\ run.progress_callback # "raises")
        => \A p \in run.start_page..Min(run.end_page, MaxPdfPages) :
               PageRaises(p)
                   => /\ BlocksOfPage(run.blocks, p) = <<>>
                      /\ \A q \in (p + 1)..Min(run.end_page, MaxPdfPages) :
                             ~PageRaises(q)
                                 => BlocksOfPage(run.blocks, q)
                                        = ProcessPage(q, "none", run.enable_ocr,
                                                      run.ocr_available,
                                                      run.PDFPLUMBER_AVAILABLE)

\* the text announces a chapter
AnnouncesChapter(text) == ChapterSearch(text) \/ SectionSearch(text)

\* the chapter in effect behind the texts from the i-th on
RECURSIVE ChapterAfter(_, _, _)
ChapterAfter(texts, i, current_chapter) ==
    IF i > Len(texts) THEN current_chapter
    ELSE ChapterAfter(texts, i + 1, ExtractChapterInfo(texts[i], current_chapter))

\* the chapter carried into page p from the pages q..p-1 whose text was read
RECURSIVE CarriedInto(_, _, _)
CarriedInto(q, p, current_chapter) ==
    IF q >= p THEN current_chapter
    ELSE CarriedInto(q + 1, p,
                     IF run.faults[q] \in {"open", "page", "text"} THEN current_chapter
                     ELSE ChapterAfter(PageTexts(q), 1, current_chapter))

\* C22: a block that precedes the first chapter marker of its page carries the
\* chapter carried over from the earlier pages of the run ("Unknown" only when
\* none of them announced one), not a chapter announced later on its page.
C22_ChapterCarriedOver ==
    (run.called /\ ~run.openFails)
        => \A p \in run.start_page..Min(run.end_page, MaxPdfPages) :
               (/\ BlocksOfPage(run.blocks, p) # <<>>
                /\ Strip(PageTexts(p)[1]) # <<>>
                /\ ~AnnouncesChapter(PageTexts(p)[1]))
                   => BlocksOfPage(run.blocks, p)[1].chapter
                          = CarriedInto(run.start_page, p, S_Unknown)

SeenOfCall(out, ids) ==
    Cardinality({i \in 1..Len(ids) : \E j \in 1..Len(out) : out[j].id = ids[i]})

\* C21: a search that runs while add_documents is in flight returns either
\* none or all of the documents of that call, never a part of them.
C21_SearchSeesWholeCalls ==
    (ret.op = "search" /\ ret.status = "ok" /\ ret.ids # <<>>)
        => SeenOfCall(ret.out, ret.ids) \in {0, Len(ret.ids)}

(***************************************************************************)
(* Properties of the keyword fallback                                      *)
(***************************************************************************)
\* how many of the keywords occur in text as substrings when case is ignored
RECURSIVE FoundCount(_, _)
FoundCount(keywords, text) ==
    IF keywords = <<>> THEN 0
    ELSE (IF \E i \in 1..Len(text) : MatchesIgnoringCase(text, Head(keywords), i)
          THEN 1 ELSE 0)
         + FoundCount(Tail(keywords), text)

\* C25: when the vector search raised, every result of quick_search is a page
\* that holds at least one keyword of the query, its score is the fraction of
\* the query's keywords that occur in the page's text, and results of equal
\* score are in ascending page order.
C25_KeywordFallbackScores ==
    (qs.called /\ qs.vector_raised)
        => LET keywords == Split(qs.query)
               found(i) == FoundCount(keywords,
                               document_metadata.page_content[qs.results[i].metadata.page])
           IN  /\ \A i \in 1..Len(qs.results) :
                      /\ found(i) > 0
                      /\ qs.results[i].score.num * Len(keywords)
                             = found(i) * qs.results[i].score.den
               /\ \A i, j \in 1..Len(qs.results) :
                      (i < j /\ ~ScoreGreater(qs.results[i].score, qs.results[j].score)
                             /\ ~ScoreGreater(qs.results[j].score, qs.results[i].score))
                          => qs.results[i].metadata.page < qs.results[j].metadata.page

(***************************************************************************)
(* Properties of the batches sent by workers                               *)
(***************************************************************************)
\* how often the document (text, meta) occurs among docs
TimesStored(docs, text, meta) ==
    Cardinality({i \in 1..Len(docs) : docs[i].text = text /\ docs[i].meta = meta})

\* C26: when every batch of the run has been sent, in any order and by any
\* worker, the collection holds every chunk of the run as often as the run has
\* it, and no batch was rejected.
C26_BatchesIndependent ==
    (run.pending = {} /\ \A w \in 1..MaxWorkers : run.worker[w].pc = "idle")
        => /\ run.rejected = 0
           /\ Len(client.docs) = Len(run.texts)
           /\ \A i \in 1..Len(run.texts) :
                  TimesStored(client.docs, run.texts[i], run.metadatas[i])
                      = Cardinality({j \in 1..Len(run.texts) :
                                        /\ run.texts[j] = run.texts[i]
                                        /\ run.metadatas[j] = run.metadatas[i]})


(***************************************************************************)
(* Properties of the forced reindex                                        *)
(***************************************************************************)
\* C29: after a forced reindex that reports success the collection holds
\* exactly the chunks produced by that run, also when delete_collection met an
\* error while deleting.
C29_ForcedReindexReplaces ==
    (resp.endpoint = "reindex" /\ run.called /\ run.force_reindex
        /\ run.status_code = 200)
        => LET chunks == RangeChunks(run.start_page, run.end_page)
           IN  /\ Len(Stored) = Len(chunks)
               /\ \A i \in 1..Len(chunks) :
                      /\ Stored[i].text = chunks[i].text
                      /\ Stored[i].meta = chunks[i].metadata

(***************************************************************************)
(* Properties of POST /reindex-pdf                                         *)
(***************************************************************************)
\* C30: POST /reindex-pdf reports success exactly when index_documents
\* completed and installed a new index: a request that leaves a newly built
\* index in index_store answers with success, a request answered with success
\* leaves an index, and a request that clears the index reports an error.
C30_ReindexPdfReportsOutcome ==
    [][pdf_resp' /= 0
         => /\ (~index_store'.isNone /\ index_store' /= index_store)
                   => pdf_resp' = 200
            /\ pdf_resp' = 200 => ~index_store'.isNone
            /\ (~index_store.isNone /\ index_store'.isNone) => pdf_resp' >= 400]_vars

====
